---- MODULE Spec2Model ----
(***************************************************************************)
(* Validation and sample scripts of the Neo4j MCP server repository.       *)
(* Each script is a sequential program; the external collaborators (the    *)
(* MCP server, Azure Entra ID, the file system) answer nondeterministically.*)
(* Strings that the code inspects or builds (tokens, credentials, header   *)
(* values) are sequences of character codes; Python's None is the value    *)
(* None below.                                                             *)
(***************************************************************************)
EXTENDS Integers, Sequences, FiniteSets, TLC

VARIABLES script, pc, env, args, files, bearer_token, results, client,
          sent, last, exit, tokenCalls, azureCalls, verdicts, success, config,
          locals

vars == <<script, pc, env, args, files, bearer_token, results, client,
          sent, last, exit, tokenCalls, azureCalls, verdicts, success, config,
          locals>>

(***************************************************************************)
(* Bounds of the model                                                     *)
(***************************************************************************)
\* longest username / password explored
MaxCredLen == 2

(***************************************************************************)
(* Strings                                                                 *)
(***************************************************************************)
\* Python None for an optional string
None == <<-1>>

\* Python truthiness of an Optional[str]: None and "" are falsy
Truthy(s) == s # None /\ s # <<>>

\* "Bearer "
BearerPrefix == <<66, 101, 97, 114, 101, 114, 32>>

\* "Basic "
BasicPrefix == <<66, 97, 115, 105, 99, 32>>

\* a pre-acquired token "t", a token issued by Azure "az", an id "id",
\* an API key "k", endpoints "e" and "f", "/mcp"
Tok == <<116>>
AzTok == <<97, 122>>
Id == <<105, 100>>
Key == <<107>>
Ep == <<101>>
FileEp == <<102>>
McpPath == <<47, 109, 99, 112>>

\* str.rstrip("/")
RECURSIVE rstrip(_)
rstrip(s) == IF Len(s) > 0 /\ s[Len(s)] = 47 THEN rstrip(SubSeq(s, 1, Len(s) - 1)) ELSE s

\* all strings of "n" up to length n
RECURSIVE StringsUpTo(_)
StringsUpTo(n) == IF n = 0 THEN {<<>>}
                  ELSE StringsUpTo(n - 1) \cup {s \o <<110>> : s \in StringsUpTo(n - 1)}

\* the i-th character of the standard base64 alphabet
B64Alphabet(i) == IF i < 26 THEN 65 + i
                  ELSE IF i < 52 THEN 97 + (i - 26)
                  ELSE IF i < 62 THEN 48 + (i - 52)
                  ELSE IF i = 62 THEN 43 ELSE 47

\* base64.b64encode(bytes).decode(): 3 bytes -> 4 characters, '=' padding
RECURSIVE b64encode(_)
b64encode(b) ==
    IF Len(b) = 0 THEN <<>>
    ELSE IF Len(b) = 1 THEN
        <<B64Alphabet(b[1] \div 4), B64Alphabet((b[1] % 4) * 16), 61, 61>>
    ELSE IF Len(b) = 2 THEN
        <<B64Alphabet(b[1] \div 4),
          B64Alphabet((b[1] % 4) * 16 + (b[2] \div 16)),
          B64Alphabet((b[2] % 16) * 4), 61>>
    ELSE
        <<B64Alphabet(b[1] \div 4),
          B64Alphabet((b[1] % 4) * 16 + (b[2] \div 16)),
          B64Alphabet((b[2] % 16) * 4 + (b[3] \div 64)),
          B64Alphabet(b[3] % 64)>> \o b64encode(SubSeq(b, 4, Len(b)))

\* f"Bearer {token}"
BearerHeader(token) == BearerPrefix \o token

\* f"Basic {credentials}", credentials = b64encode(f"{username}:{password}")
BasicHeader(username, password) == BasicPrefix \o b64encode(username \o <<58>> \o password)

(***************************************************************************)
(* The MCP server as seen through the requests library                     *)
(***************************************************************************)
\* an answer with a status code and a body, or an exception of requests.post
\* json: "none" (body is no JSON), "empty" ({}), "error" ({"error": {...}}),
\*       "result" ({"result": {...}}), "nonobject" (JSON that is no object)
\* id: the "id" member of a JSON-RPC answer: "echoed" (the id of the request),
\*     "different" (another id, or null), "missing" (the body has none)
Responses ==
    [kind : {"response"}, status : {200}, json : {"none", "empty", "nonobject"}, id : {"missing"}]
    \cup [kind : {"response"}, status : {200}, json : {"error", "result"},
          id : {"echoed", "different"}]
    \cup [kind : {"response"}, status : {401, 403, 500}, json : {"none"}, id : {"missing"}]
    \cup [kind : {"ConnectionError", "Timeout", "RequestException"}, status : {0},
          json : {"none"}, id : {"missing"}]

NoResponse == [kind |-> "none", status |-> 0, json |-> "none", id |-> "missing"]

\* the test executed last: the answer it got, what its call helper did with it
\* (outcome, and the status or error code handed back), and the verdict
NoLast == [test |-> 0, resp |-> NoResponse, outcome |-> "none", code |-> 0, verdict |-> "none"]

Request(test, method, id, auth) == [test |-> test, method |-> method, id |-> id, auth |-> auth]

(***************************************************************************)
(* test_http_mode.py                                                       *)
(***************************************************************************)
\* TestResults.record_pass / record_fail / record_skip
record_pass(r) == [r EXCEPT !.passed = @ + 1]
record_fail(r) == [r EXCEPT !.failed = @ + 1]
record_skip(r) == [r EXCEPT !.skipped = @ + 1]

Record(r, verdict) == IF verdict = "pass" THEN record_pass(r)
                      ELSE IF verdict = "fail" THEN record_fail(r)
                      ELSE record_skip(r)

\* MCPHttpClient._call: the dict it returns, or the exception of requests.post
HttpCall(resp) ==
    IF resp.kind = "response"
    THEN [outcome |-> "returned", status_code |-> resp.status, json |-> resp.json,
          id |-> resp.id]
    ELSE [outcome |-> "raised", status_code |-> 0, json |-> "none", id |-> "missing"]

\* MCPHttpClient.health_check: True, False, or an exception it does not catch
health_check(resp) ==
    IF resp.kind = "response" THEN
        IF resp.status \in {200, 401, 403} THEN "pass" ELSE "fail"
    ELSE IF resp.kind \in {"ConnectionError", "Timeout"} THEN "fail"
    ELSE "escaped"

\* run_tests, test 2: only 401 passes
Test2Verdict(r) ==
    IF r.outcome = "raised" THEN "fail"
    ELSE IF r.status_code = 401 THEN "pass" ELSE "fail"

\* 403 accepted like 401
Test3Verdict_403_passes(r) ==
    IF r.outcome = "raised" THEN "fail"
    ELSE IF r.status_code = 200 THEN
        IF r.json = "nonobject" THEN "fail" ELSE "pass"
    ELSE IF r.status_code \in {401, 403} THEN "pass"
    ELSE "fail"

\* run_tests, tests 3 and 4: 200 and 401 pass; a 200 body that is JSON but no
\* object raises AttributeError inside the try block
Test3Verdict(r) ==
    IF r.outcome = "raised" THEN "fail"
    ELSE IF r.status_code = 200 THEN
        IF r.json = "nonobject" THEN "fail" ELSE "pass"
    ELSE IF r.status_code = 401 THEN "pass"
    ELSE "fail"

Test4Verdict(r) ==
    IF r.outcome = "raised" THEN "fail"
    ELSE IF r.status_code = 200 THEN
        IF r.json = "nonobject" THEN "fail" ELSE "pass"
    ELSE IF r.status_code = 401 THEN "pass"
    ELSE "fail"

\* response["json"] is truthy
JsonTruthy(j) == j \in {"error", "result", "nonobject"}

\* initialize rejected with 401 recorded as a failure
Test5Verdict_401_fails(r) ==
    IF r.outcome = "raised" THEN "fail"
    ELSE IF r.status_code = 200 /\ JsonTruthy(r.json) THEN
        IF r.json = "result" THEN "pass" ELSE "fail"
    ELSE "fail"

\* run_tests, tests 5, 6 and 7
Test5Verdict(r) ==
    IF r.outcome = "raised" THEN "fail"
    ELSE IF r.status_code = 200 /\ JsonTruthy(r.json) THEN
        IF r.json = "result" THEN "pass" ELSE "fail"
    ELSE IF r.status_code = 401 THEN "pass"
    ELSE "fail"

Test6Verdict(r) ==
    IF r.outcome = "raised" THEN "fail"
    ELSE IF r.status_code = 200 /\ JsonTruthy(r.json) THEN
        IF r.json = "result" THEN "pass" ELSE "fail"
    ELSE IF r.status_code = 401 THEN "pass"
    ELSE "fail"

Test7Verdict(r) ==
    IF r.outcome = "raised" THEN "fail"
    ELSE IF r.status_code = 200 /\ JsonTruthy(r.json) THEN
        IF r.json = "result" THEN "pass" ELSE "fail"
    ELSE IF r.status_code = 401 THEN "pass"
    ELSE "fail"

\* run_tests: has_bearer, has_basic
has_bearer == bearer_token # None
has_basic == args.username # None /\ args.password # None

\* basic credentials preferred to the bearer token
AuthHeader_basic_first == IF has_basic THEN BasicHeader(args.username, args.password)
                          ELSE BearerHeader(bearer_token)

\* run_tests, tests 5-7: "Use bearer if available, otherwise basic"
AuthHeader == IF has_bearer THEN BearerHeader(bearer_token)
              ELSE BasicHeader(args.username, args.password)

\* get_azure_token: the access token, or the exception it raises (ImportError
\* when msal is missing, Exception when Entra ID returns no access_token)
AzureOutcomes == {"token", "error", "ImportError"}

get_azure_token(az) ==
    IF az = "token"
    THEN [outcome |-> "returned", token |-> AzTok, azure |-> 1]
    ELSE [outcome |-> "raised", token |-> None, azure |-> IF az = "error" THEN 1 ELSE 0]

\* test_http_mode.get_token_from_env: Optional[str]
http_get_token_from_env(e, az) ==
    IF Truthy(e.MCP_BEARER_TOKEN)
    THEN [outcome |-> "returned", token |-> e.MCP_BEARER_TOKEN, azure |-> 0]
    ELSE IF Truthy(e.AZURE_TENANT_ID) /\ Truthy(e.AZURE_CLIENT_ID) /\ Truthy(e.AZURE_CLIENT_SECRET)
    THEN get_azure_token(az)
    ELSE [outcome |-> "returned", token |-> None, azure |-> 0]

\* MCPHttpClient._call: the Authorization header is set only for a truthy auth_header
CallHeader(auth_header) == IF Truthy(auth_header) THEN auth_header ELSE None

NoEnv == [MCP_BEARER_TOKEN |-> None, AZURE_TENANT_ID |-> None, AZURE_CLIENT_ID |-> None,
          AZURE_CLIENT_SECRET |-> None, MCP_ENDPOINT |-> None, MCP_API_KEY |-> None]

NoClient == [endpoint |-> None, mcp_url |-> None, token |-> None, request_id |-> 0]

\* MCPHttpClient.__init__
MCPHttpClient(endpoint) ==
    [endpoint |-> rstrip(endpoint), mcp_url |-> rstrip(endpoint) \o McpPath,
     token |-> None, request_id |-> 0]

NoArgs == [endpoint |-> None, bearer_token |-> None, azure_tenant_id |-> None, azure_client_id |-> None,
           azure_client_secret |-> None, username |-> None, password |-> None,
           http_only |-> FALSE]

\* MCP_ACCESS.json (a missing key is None) and the MCP_API_KEY line of .env
NoFiles == [exists |-> FALSE, endpoint |-> None, mcp_path |-> None, api_key |-> None,
            dotenv_api_key |-> None]

NoConfig == [endpoint |-> None, api_key |-> None]

\* the local variables of the sample agents' loops, before they run
NoLocals == [demo_list |-> <<>>, i |-> 0, invoked |-> <<>>, running |-> {}, query |-> 0,
             in_flight |-> {}, created |-> 0, closed |-> 0, rounds |-> 0,
             choice |-> "none"]

NoResults == [passed |-> 0, failed |-> 0, skipped |-> 0]

\* the command lines and environments explored for test_http_mode
HttpArgs ==
    [endpoint : {Ep \o <<47>>},
     bearer_token : {None, <<>>, Tok},
     azure_tenant_id : {None, Id}, azure_client_id : {Id}, azure_client_secret : {None, Id},
     username : {None} \cup StringsUpTo(MaxCredLen),
     password : {None} \cup StringsUpTo(MaxCredLen),
     http_only : BOOLEAN]

HttpEnvs ==
    [MCP_BEARER_TOKEN : {None, Tok},
     AZURE_TENANT_ID : {None, Id}, AZURE_CLIENT_ID : {Id}, AZURE_CLIENT_SECRET : {Id},
     MCP_ENDPOINT : {None}, MCP_API_KEY : {None}]

\* a run varies the sources of the bearer token (without basic credentials)
\* or the basic credentials and --http-only (without Azure settings)
InitHttp ==
    /\ script = "http"
    /\ pc = "main"
    /\ env \in HttpEnvs
    /\ args \in HttpArgs
    /\ \/ args.username = None /\ args.password = None /\ ~args.http_only
       \/ /\ args.azure_tenant_id = None /\ args.azure_client_secret = None
          /\ env.AZURE_TENANT_ID = None
    /\ files = NoFiles
    /\ bearer_token = None
    /\ results = NoResults
    /\ client = NoClient
    /\ sent = <<>>
    /\ last = NoLast
    /\ exit = "running"
    /\ tokenCalls = 0
    /\ azureCalls = 0
    /\ verdicts = <<>>
    /\ success = "none"
    /\ config = NoConfig
    /\ locals = NoLocals

\* main, lines 696-716: determine the bearer token
http_main ==
    /\ script = "http" /\ pc = "main"
    /\ \E az1 \in AzureOutcomes, az2 \in AzureOutcomes :
        LET useArgs == /\ ~Truthy(args.bearer_token)
                       /\ Truthy(args.azure_tenant_id)
                       /\ Truthy(args.azure_client_id)
                       /\ Truthy(args.azure_client_secret)
            r1 == IF useArgs THEN get_azure_token(az1)
                  ELSE [outcome |-> "returned", token |-> args.bearer_token, azure |-> 0]
            useEnv == r1.outcome = "returned" /\ ~Truthy(r1.token)
            r2 == IF useEnv THEN http_get_token_from_env(env, az2) ELSE r1
        IN  /\ azureCalls' = azureCalls + r1.azure + (IF useEnv THEN r2.azure ELSE 0)
            /\ tokenCalls' = tokenCalls + (IF useEnv THEN 1 ELSE 0)
            /\ IF r1.outcome = "raised"
               THEN \* except Exception: log_fail; sys.exit(1)
                    /\ exit' = "exit1" /\ pc' = "done" /\ bearer_token' = bearer_token
               ELSE IF r2.outcome = "raised"
               THEN \* get_token_from_env() is not inside a try block
                    /\ exit' = "unhandled" /\ pc' = "done" /\ bearer_token' = bearer_token
               ELSE /\ exit' = exit /\ pc' = "t1" /\ bearer_token' = r2.token
    /\ UNCHANGED <<locals, script, env, args, files, results, client, sent, last, verdicts, success, config>>

\* the tests go on after a failed health check
http_test1_goes_on ==
    /\ script = "http" /\ pc = "t1"
    /\ client' = MCPHttpClient(args.endpoint)
    /\ \E resp \in Responses :
        LET v == health_check(resp)
        IN  /\ sent' = Append(sent, Request(1, "tools/list", 1, None))
            /\ last' = [test |-> 1, resp |-> resp,
                        outcome |-> IF v = "escaped" THEN "escaped" ELSE "returned",
                        code |-> 0, verdict |-> v]
            /\ IF v = "escaped"
               THEN /\ results' = results /\ exit' = "unhandled" /\ pc' = "done"
               ELSE /\ results' = Record(results, v) /\ exit' = exit
                    /\ pc' = "t2"
    /\ UNCHANGED <<locals, script, env, args, files, bearer_token, tokenCalls,
                   azureCalls, verdicts, success, config>>

\* run_tests, lines 332-361: the client is built, then test 1, the health
\* check (its request has the fixed id 1); "Can't continue without HTTP"
http_test1 ==
    /\ script = "http" /\ pc = "t1"
    /\ client' = MCPHttpClient(args.endpoint)
    /\ \E resp \in Responses :
        LET v == health_check(resp)
        IN  /\ sent' = Append(sent, Request(1, "tools/list", 1, None))
            /\ last' = [test |-> 1, resp |-> resp,
                        outcome |-> IF v = "escaped" THEN "escaped" ELSE "returned",
                        code |-> 0, verdict |-> v]
            /\ IF v = "escaped"
               THEN /\ results' = results /\ exit' = "unhandled" /\ pc' = "done"
               ELSE /\ results' = Record(results, v) /\ exit' = exit
                    /\ pc' = IF v = "pass" THEN "t2" ELSE "exit"
    /\ UNCHANGED <<locals, script, env, args, files, bearer_token, tokenCalls,
                   azureCalls, verdicts, success, config>>

\* a failed request sent a second time
HttpRequest_retry(test, method, auth_header, resp, v, next) ==
    LET q == Request(test, method, client.request_id + 1, CallHeader(auth_header))
    IN /\ client' = [client EXCEPT !.request_id = @ + 1]
       /\ sent' = IF v = "fail" THEN Append(Append(sent, q), q) ELSE Append(sent, q)
       /\ results' = Record(results, v)
       /\ last' = [test |-> test, resp |-> resp, outcome |-> HttpCall(resp).outcome,
                   code |-> HttpCall(resp).status_code, verdict |-> v]
       /\ pc' = next

\* one call of MCPHttpClient._call inside a try block of run_tests
HttpRequest(test, method, auth_header, resp, v, next) ==
    /\ client' = [client EXCEPT !.request_id = @ + 1]
    /\ sent' = Append(sent, Request(test, method, client.request_id + 1, CallHeader(auth_header)))
    /\ results' = Record(results, v)
    /\ last' = [test |-> test, resp |-> resp, outcome |-> HttpCall(resp).outcome,
                code |-> HttpCall(resp).status_code, verdict |-> v]
    /\ pc' = next

\* a test that is skipped sends nothing
HttpSkip(test, next) ==
    /\ client' = client
    /\ sent' = sent
    /\ results' = record_skip(results)
    /\ last' = [test |-> test, resp |-> NoResponse, outcome |-> "none", code |-> 0,
                verdict |-> "skip"]
    /\ pc' = next

\* run_tests, test 2: request without authentication
http_test2 ==
    /\ script = "http" /\ pc = "t2"
    /\ \E resp \in Responses :
        HttpRequest(2, "tools/list", None, resp, Test2Verdict(HttpCall(resp)), "t3")
    /\ UNCHANGED <<locals, script, env, args, files, bearer_token, exit, tokenCalls, azureCalls,
                   verdicts, success, config>>

\* run_tests, test 3: bearer token authentication
http_test3 ==
    /\ script = "http" /\ pc = "t3"
    /\ IF ~has_bearer
       THEN HttpSkip(3, "t4")
       ELSE \E resp \in Responses :
              HttpRequest(3, "tools/list", BearerHeader(bearer_token), resp,
                          Test3Verdict(HttpCall(resp)), "t4")
    /\ UNCHANGED <<locals, script, env, args, files, bearer_token, exit, tokenCalls, azureCalls,
                   verdicts, success, config>>

\* run_tests, test 4: basic authentication
http_test4 ==
    /\ script = "http" /\ pc = "t4"
    /\ IF ~has_basic \/ args.http_only
       THEN HttpSkip(4, "t5")
       ELSE \E resp \in Responses :
              HttpRequest(4, "tools/list", BasicHeader(args.username, args.password), resp,
                          Test4Verdict(HttpCall(resp)), "t5")
    /\ UNCHANGED <<locals, script, env, args, files, bearer_token, exit, tokenCalls, azureCalls,
                   verdicts, success, config>>

\* run_tests, tests 5-7 are skipped with --http-only or without credentials
SkipProtocolTest == args.http_only \/ (~has_bearer /\ ~has_basic)

\* run_tests, test 5: initialize
http_test5 ==
    /\ script = "http" /\ pc = "t5"
    /\ IF SkipProtocolTest
       THEN HttpSkip(5, "t6")
       ELSE \E resp \in Responses :
              HttpRequest(5, "initialize", AuthHeader, resp, Test5Verdict(HttpCall(resp)), "t6")
    /\ UNCHANGED <<locals, script, env, args, files, bearer_token, exit, tokenCalls, azureCalls,
                   verdicts, success, config>>

\* run_tests, test 6: tools/list
http_test6 ==
    /\ script = "http" /\ pc = "t6"
    /\ IF SkipProtocolTest
       THEN HttpSkip(6, "t7")
       ELSE \E resp \in Responses :
              HttpRequest(6, "tools/list", AuthHeader, resp, Test6Verdict(HttpCall(resp)), "t7")
    /\ UNCHANGED <<locals, script, env, args, files, bearer_token, exit, tokenCalls, azureCalls,
                   verdicts, success, config>>

\* run_tests, test 7: tools/call get-schema
http_test7 ==
    /\ script = "http" /\ pc = "t7"
    /\ IF SkipProtocolTest
       THEN HttpSkip(7, "exit")
       ELSE \E resp \in Responses :
              HttpRequest(7, "tools/call", AuthHeader, resp, Test7Verdict(HttpCall(resp)), "exit")
    /\ UNCHANGED <<locals, script, env, args, files, bearer_token, exit, tokenCalls, azureCalls,
                   verdicts, success, config>>

\* a skipped test counted like a failed one
HttpExitStatus_skip_fails(r) == IF r.failed = 0 /\ r.skipped = 0 THEN "exit0" ELSE "exit1"

\* main, lines 726-727: sys.exit(0 if results.failed == 0 else 1)
HttpExitStatus(r) == IF r.failed = 0 THEN "exit0" ELSE "exit1"

http_main_exit ==
    /\ script = "http" /\ pc = "exit"
    /\ exit' = HttpExitStatus(results)
    /\ pc' = "done"
    /\ UNCHANGED <<locals, script, env, args, files, bearer_token, results, client, sent, last,
                   tokenCalls, azureCalls, verdicts, success, config>>

(***************************************************************************)
(* test_bearer_client.py                                                   *)
(***************************************************************************)
\* MCPBearerClient.__init__
MCPBearerClient(endpoint, token) ==
    [endpoint |-> rstrip(endpoint), mcp_url |-> rstrip(endpoint) \o McpPath,
     token |-> token, request_id |-> 0]

\* the 403 check left out, and 403 answered with a JSON body
BearerCall_no_403(resp) ==
    IF resp.kind # "response" THEN [outcome |-> "raised", json |-> "none", id |-> "missing"]
    ELSE IF resp.status = 401 THEN [outcome |-> "raised", json |-> "none", id |-> "missing"]
    ELSE [outcome |-> "returned", json |-> "result", id |-> resp.id]

\* MCPBearerClient._call after requests.post: 401 and 403 raise Exception,
\* raise_for_status raises for the other error statuses, response.json()
\* raises when the body is no JSON
BearerCall(resp) ==
    IF resp.kind # "response" THEN [outcome |-> "raised", json |-> "none", id |-> "missing"]
    ELSE IF resp.status = 401 THEN [outcome |-> "raised", json |-> "none", id |-> "missing"]
    ELSE IF resp.status = 403 THEN [outcome |-> "raised", json |-> "none", id |-> "missing"]
    ELSE IF resp.status >= 400 THEN [outcome |-> "raised", json |-> "none", id |-> "missing"]
    ELSE IF resp.json = "none" THEN [outcome |-> "raised", json |-> "none", id |-> "missing"]
    ELSE [outcome |-> "returned", json |-> resp.json, id |-> resp.id]

\* the try block of one test of run_tests: an exception of _call, or the
\* AttributeError of result.get on JSON that is no object, fails the test
BearerTestVerdict(r) ==
    IF r.outcome = "raised" THEN "fail"
    ELSE IF r.json = "nonobject" THEN "fail"
    ELSE "pass"

\* the Azure credentials tried before MCP_BEARER_TOKEN
get_token_from_env_azure_first(e, az) ==
    IF Truthy(e.AZURE_TENANT_ID) /\ Truthy(e.AZURE_CLIENT_ID) /\ Truthy(e.AZURE_CLIENT_SECRET)
    THEN get_azure_token(az)
    ELSE IF Truthy(e.MCP_BEARER_TOKEN)
    THEN [outcome |-> "returned", token |-> e.MCP_BEARER_TOKEN, azure |-> 0]
    ELSE [outcome |-> "raised", token |-> None, azure |-> 0]

\* test_bearer_client.get_token_from_env; e is os.environ as it is after
\* load_dotenv_from_parent()
get_token_from_env(e, az) ==
    IF Truthy(e.MCP_BEARER_TOKEN)
    THEN [outcome |-> "returned", token |-> e.MCP_BEARER_TOKEN, azure |-> 0]
    ELSE IF Truthy(e.AZURE_TENANT_ID) /\ Truthy(e.AZURE_CLIENT_ID) /\ Truthy(e.AZURE_CLIENT_SECRET)
    THEN get_azure_token(az)
    ELSE [outcome |-> "raised", token |-> None, azure |-> 0]

\* load_endpoint_from_config: config.get("endpoint", "") of the first file found
load_endpoint_from_config(f) ==
    IF f.exists THEN (IF f.endpoint = None THEN <<>> ELSE f.endpoint) ELSE <<>>

BearerEnvs ==
    [MCP_BEARER_TOKEN : {None, <<>>, Tok},
     AZURE_TENANT_ID : {None, Id}, AZURE_CLIENT_ID : {None, Id},
     AZURE_CLIENT_SECRET : {None, <<>>, Id},
     MCP_ENDPOINT : {None, Ep \o <<47>>}, MCP_API_KEY : {None}]

BearerFiles ==
    {NoFiles} \cup [exists : {TRUE}, endpoint : {None, FileEp}, mcp_path : {None},
                    api_key : {None}, dotenv_api_key : {None}]

InitBearer ==
    /\ script = "bearer"
    /\ pc = "main"
    /\ env \in BearerEnvs
    /\ args = NoArgs
    /\ files \in BearerFiles
    /\ bearer_token = None
    /\ results = NoResults
    /\ client = NoClient
    /\ sent = <<>>
    /\ last = NoLast
    /\ exit = "running"
    /\ tokenCalls = 0
    /\ azureCalls = 0
    /\ verdicts = <<>>
    /\ success = "none"
    /\ config = NoConfig
    /\ locals = NoLocals

\* main, lines 326-348: endpoint, token, client
bearer_main ==
    /\ script = "bearer" /\ pc = "main"
    /\ LET endpoint == IF Truthy(env.MCP_ENDPOINT) THEN env.MCP_ENDPOINT
                       ELSE load_endpoint_from_config(files)
       IN IF ~Truthy(endpoint)
          THEN /\ exit' = "exit1" /\ pc' = "done"
               /\ UNCHANGED <<bearer_token, client, tokenCalls, azureCalls>>
          ELSE \E az \in AzureOutcomes :
                 LET r == get_token_from_env(env, az)
                 IN /\ tokenCalls' = tokenCalls + 1
                    /\ azureCalls' = azureCalls + r.azure
                    /\ IF r.outcome = "raised"
                       THEN /\ exit' = "exit1" /\ pc' = "done"
                            /\ UNCHANGED <<bearer_token, client>>
                       ELSE /\ exit' = exit /\ pc' = "t1"
                            /\ bearer_token' = r.token
                            /\ client' = MCPBearerClient(endpoint, r.token)
    /\ UNCHANGED <<locals, script, env, args, files, results, sent, last, verdicts, success, config>>

\* the token replaced by a newly issued one after a 401 or 403 answer
BearerTest_refresh(test, method, critical, next) ==
    /\ \E resp \in Responses :
        LET r == BearerCall(resp)
            v == BearerTestVerdict(r)
        IN /\ client' = [client EXCEPT !.request_id = @ + 1,
                                       !.token = IF resp.status \in {401, 403}
                                                 THEN AzTok \o AzTok ELSE @]
           /\ sent' = Append(sent, Request(test, method, client.request_id + 1,
                                           BearerHeader(client.token)))
           /\ last' = [test |-> test, resp |-> resp, outcome |-> r.outcome, code |-> 0,
                       verdict |-> v]
           /\ verdicts' = Append(verdicts, v = "pass")
           /\ IF v = "fail" /\ critical
              THEN success' = "False" /\ pc' = "exit"
              ELSE IF next = "exit"
              THEN success' = "True" /\ pc' = "exit"
              ELSE success' = success /\ pc' = next
    /\ UNCHANGED <<locals, script, env, args, files, bearer_token, results, exit, tokenCalls,
                   azureCalls, config>>

\* one test of run_tests: one _call; a failed critical test returns False
BearerTest(test, method, critical, next) ==
    /\ \E resp \in Responses :
        LET r == BearerCall(resp)
            v == BearerTestVerdict(r)
        IN /\ client' = [client EXCEPT !.request_id = @ + 1]
           /\ sent' = Append(sent, Request(test, method, client.request_id + 1,
                                           BearerHeader(client.token)))
           /\ last' = [test |-> test, resp |-> resp, outcome |-> r.outcome, code |-> 0,
                       verdict |-> v]
           /\ verdicts' = Append(verdicts, v = "pass")
           /\ IF v = "fail" /\ critical
              THEN success' = "False" /\ pc' = "exit"
              ELSE IF next = "exit"
              THEN success' = "True" /\ pc' = "exit"
              ELSE success' = success /\ pc' = next
    /\ UNCHANGED <<locals, script, env, args, files, bearer_token, results, exit, tokenCalls,
                   azureCalls, config>>

bearer_test1 == script = "bearer" /\ pc = "t1" /\ BearerTest(1, "initialize", TRUE, "t2")

bearer_test2 == script = "bearer" /\ pc = "t2" /\ BearerTest(2, "tools/list", TRUE, "t3")

\* a failed get-schema call ends the suite
bearer_test3_critical ==
    script = "bearer" /\ pc = "t3" /\ BearerTest(3, "tools/call get-schema", TRUE, "t4")

\* tests 3, 4 and 5 are tools/call of get-schema, read-cypher and read-cypher
bearer_test3 ==
    script = "bearer" /\ pc = "t3" /\ BearerTest(3, "tools/call get-schema", FALSE, "t4")

bearer_test4 ==
    script = "bearer" /\ pc = "t4" /\ BearerTest(4, "tools/call read-cypher", TRUE, "t5")

bearer_test5 ==
    script = "bearer" /\ pc = "t5" /\ BearerTest(5, "tools/call read-cypher", FALSE, "exit")

\* main, lines 350-351: sys.exit(0 if success else 1)
BearerExitStatus(ok) == IF ok = "True" THEN "exit0" ELSE "exit1"

bearer_main_exit ==
    /\ script = "bearer" /\ pc = "exit"
    /\ exit' = BearerExitStatus(success)
    /\ pc' = "done"
    /\ UNCHANGED <<locals, script, env, args, files, bearer_token, results, client, sent, last,
                   tokenCalls, azureCalls, verdicts, success, config>>

(***************************************************************************)
(* simple-mcp-server/client/test_client.py                                 *)
(***************************************************************************)
\* "YOUR_API_KEY", the placeholder that main rejects
Placeholder == <<89, 79, 85, 82, 95, 65, 80, 73, 95, 75, 69, 89>>

\* "invalid-api-key-12345"
InvalidKey == <<105, 110, 118, 97, 108, 105, 100, 45, 97, 112, 105, 45, 107, 101, 121,
                45, 49, 50, 51, 52, 53>>

\* the MCP server as seen through urllib.request.urlopen: a 2xx answer with a
\* body, an HTTPError, a URLError, or another exception (a timeout while the
\* answer is read, a dropped connection)
\* json: "invalid" (no JSON), "error401" / "error" (a JSON-RPC error object
\*       with code 401 / another code), "result" / "empty_result" (a result
\*       with / without content), "badresult" (a result that is no object),
\*       "other" (neither error nor result)
ClientResponses ==
    [kind : {"response"}, status : {200},
     json : {"invalid", "error401", "empty_result", "badresult", "other"}, id : {"missing"}]
    \cup [kind : {"response"}, status : {200}, json : {"error", "result"},
          id : {"echoed", "different"}]
    \cup [kind : {"HTTPError"}, status : {401, 403, 500}, json : {"none"}, id : {"missing"}]
    \cup [kind : {"URLError", "OtherError"}, status : {0}, json : {"none"}, id : {"missing"}]

\* make_mcp_request: the dict it returns (error code, kind of result), or the
\* exception that none of its except clauses catches
make_mcp_request(resp) ==
    IF resp.kind = "HTTPError"
    THEN [outcome |-> "returned", has_error |-> TRUE, code |-> resp.status, result |-> "none",
          id |-> "missing"]
    ELSE IF resp.kind = "URLError"
    THEN [outcome |-> "returned", has_error |-> TRUE, code |-> -1, result |-> "none",
          id |-> "missing"]
    ELSE IF resp.kind = "OtherError"
    THEN [outcome |-> "escaped", has_error |-> FALSE, code |-> 0, result |-> "none",
          id |-> "missing"]
    ELSE IF resp.json = "invalid"
    THEN [outcome |-> "returned", has_error |-> TRUE, code |-> -2, result |-> "none",
          id |-> "missing"]
    ELSE IF resp.json = "error401"
    THEN [outcome |-> "returned", has_error |-> TRUE, code |-> 401, result |-> "none",
          id |-> resp.id]
    ELSE IF resp.json = "error"
    THEN [outcome |-> "returned", has_error |-> TRUE, code |-> -32000, result |-> "none",
          id |-> resp.id]
    ELSE IF resp.json = "result"
    THEN [outcome |-> "returned", has_error |-> FALSE, code |-> 0, result |-> "content",
          id |-> resp.id]
    ELSE IF resp.json = "empty_result"
    THEN [outcome |-> "returned", has_error |-> FALSE, code |-> 0, result |-> "empty",
          id |-> resp.id]
    ELSE IF resp.json = "badresult"
    THEN [outcome |-> "returned", has_error |-> FALSE, code |-> 0, result |-> "bad",
          id |-> resp.id]
    ELSE [outcome |-> "returned", has_error |-> FALSE, code |-> 0, result |-> "none",
          id |-> resp.id]

\* test_authentication_rejected: only HTTPError 401 is a pass
test_authentication_rejected(resp) ==
    IF resp.kind = "response" THEN "fail"
    ELSE IF resp.kind = "HTTPError" THEN (IF resp.status = 401 THEN "pass" ELSE "fail")
    ELSE "fail"

\* test_authentication_invalid: only HTTPError 401 is a pass
test_authentication_invalid(resp) ==
    IF resp.kind = "response" THEN "fail"
    ELSE IF resp.kind = "HTTPError" THEN (IF resp.status = 401 THEN "pass" ELSE "fail")
    ELSE "fail"

\* test_tools_list
test_tools_list(r) ==
    IF r.outcome = "escaped" THEN "escaped"
    ELSE IF r.has_error THEN "fail"
    ELSE IF r.result = "none" THEN "fail"
    ELSE IF r.result = "bad" THEN "escaped"
    ELSE "pass"

\* test_get_schema: only an error with code 401 fails; other errors are warnings
test_get_schema(r) ==
    IF r.outcome = "escaped" THEN "escaped"
    ELSE IF r.has_error THEN (IF r.code = 401 THEN "fail" ELSE "pass")
    ELSE IF r.result = "bad" THEN "escaped"
    ELSE "pass"

\* test_read_cypher: only an error with code 401 fails; other errors are warnings
test_read_cypher(r) ==
    IF r.outcome = "escaped" THEN "escaped"
    ELSE IF r.has_error THEN (IF r.code = 401 THEN "fail" ELSE "pass")
    ELSE IF r.result = "bad" THEN "escaped"
    ELSE "pass"

\* load_config: the api_key of .env, when there is one, replaces the file's
load_config(f) ==
    [endpoint |-> f.endpoint, mcp_path |-> f.mcp_path,
     api_key |-> IF Truthy(f.dotenv_api_key) THEN f.dotenv_api_key ELSE f.api_key]

\* dict.get(key, default) of a key that may be missing
Get(v, default) == IF v = None THEN default ELSE v

ClientFiles ==
    [exists : {FALSE}, endpoint : {None}, mcp_path : {None}, api_key : {None},
     dotenv_api_key : {None, Key}]
    \cup [exists : {TRUE}, endpoint : {None, FileEp \o <<47>>}, mcp_path : {None, McpPath},
          api_key : {None, Placeholder, Key}, dotenv_api_key : {None, <<>>, Key}]

InitClient ==
    /\ script = "client"
    /\ pc = "main"
    /\ env = NoEnv
    /\ args = NoArgs
    /\ files \in ClientFiles
    /\ bearer_token = None
    /\ results = NoResults
    /\ client = NoClient
    /\ sent = <<>>
    /\ last = NoLast
    /\ exit = "running"
    /\ tokenCalls = 0
    /\ azureCalls = 0
    /\ verdicts = <<>>
    /\ success = "none"
    /\ config = NoConfig
    /\ locals = NoLocals

\* main, lines 338-362: load the configuration; client holds main's
\* full_endpoint (mcp_url) and api_key (token)
client_main ==
    /\ script = "client" /\ pc = "main"
    /\ IF ~files.exists
       THEN /\ exit' = "exit1" /\ pc' = "done" /\ client' = client
       ELSE LET cfg == load_config(files)
                endpoint == Get(cfg.endpoint, <<>>)
                mcp_path == Get(cfg.mcp_path, McpPath)
                api_key == Get(cfg.api_key, <<>>)
            IN IF ~Truthy(endpoint) \/ ~Truthy(api_key) \/ api_key = Placeholder
               THEN /\ exit' = "exit1" /\ pc' = "done" /\ client' = client
               ELSE /\ exit' = exit /\ pc' = "t1"
                    /\ client' = [endpoint |-> endpoint, mcp_url |-> rstrip(endpoint) \o mcp_path,
                                  token |-> api_key, request_id |-> 0]
    /\ UNCHANGED <<locals, script, env, args, files, bearer_token, results, sent, last, tokenCalls,
                   azureCalls, verdicts, success, config>>

\* tests 1 and 2 send their request themselves, without make_mcp_request
NoHelper == [outcome |-> "none", code |-> 0]

\* one test function called by main: one request (its id is always 1); an
\* exception the test does not catch ends the run with a traceback
ClientTest(test, method, auth, resp, helper, v, next) ==
    /\ sent' = Append(sent, Request(test, method, 1, auth))
    /\ last' = [test |-> test, resp |-> resp, outcome |-> helper.outcome,
                code |-> helper.code, verdict |-> v]
    /\ IF v = "escaped"
       THEN /\ verdicts' = verdicts /\ exit' = "unhandled" /\ pc' = "done"
       ELSE /\ verdicts' = Append(verdicts, v = "pass") /\ exit' = exit /\ pc' = next
    /\ UNCHANGED <<locals, script, env, args, files, bearer_token, results, client, tokenCalls,
                   azureCalls, success, config>>

client_test1 ==
    /\ script = "client" /\ pc = "t1"
    /\ \E resp \in ClientResponses :
        ClientTest(1, "tools/list", None, resp, NoHelper, test_authentication_rejected(resp), "t2")

client_test2 ==
    /\ script = "client" /\ pc = "t2"
    /\ \E resp \in ClientResponses :
        ClientTest(2, "tools/list", BearerHeader(InvalidKey), resp, NoHelper,
                   test_authentication_invalid(resp), "t3")

client_test3 ==
    /\ script = "client" /\ pc = "t3"
    /\ \E resp \in ClientResponses :
        ClientTest(3, "tools/list", BearerHeader(client.token), resp,
                   make_mcp_request(resp), test_tools_list(make_mcp_request(resp)), "t4")

client_test4 ==
    /\ script = "client" /\ pc = "t4"
    /\ \E resp \in ClientResponses :
        ClientTest(4, "tools/call", BearerHeader(client.token), resp,
                   make_mcp_request(resp), test_get_schema(make_mcp_request(resp)), "t5")

client_test5 ==
    /\ script = "client" /\ pc = "t5"
    /\ \E resp \in ClientResponses :
        ClientTest(5, "tools/call", BearerHeader(client.token), resp,
                   make_mcp_request(resp), test_read_cypher(make_mcp_request(resp)), "exit")

\* main, lines 390-408: passed == total exits 0, a failed test exits 1
ClientExitStatus(rs) ==
    LET passed == Cardinality({i \in 1..Len(rs) : rs[i]})
        total == Len(rs)
        failed == {i \in 1..Len(rs) : ~rs[i]}
    IN IF passed = total THEN "exit0"
       ELSE IF failed # {} THEN "exit1" ELSE "exit0"

client_main_exit ==
    /\ script = "client" /\ pc = "exit"
    /\ exit' = ClientExitStatus(verdicts)
    /\ pc' = "done"
    /\ UNCHANGED <<locals, script, env, args, files, bearer_token, results, client, sent, last,
                   tokenCalls, azureCalls, verdicts, success, config>>

(***************************************************************************)
(* The configuration loaders of the sample agents                          *)
(***************************************************************************)
\* load_mcp_config (the three copies in the MAF samples are the same code)
load_mcp_config(e, f) ==
    IF Truthy(e.MCP_ENDPOINT) /\ Truthy(e.MCP_API_KEY)
    THEN [outcome |-> "returned", endpoint |-> e.MCP_ENDPOINT, api_key |-> e.MCP_API_KEY]
    ELSE IF f.exists
    THEN [outcome |-> "returned",
          endpoint |-> rstrip(Get(f.endpoint, <<>>)) \o Get(f.mcp_path, McpPath),
          api_key |-> f.api_key]
    ELSE [outcome |-> "returned", endpoint |-> None, api_key |-> None]

\* langgraph-mcp-agent load_config, lines 94-114 (after the Azure endpoint
\* was found): the MCP endpoint and API key, or sys.exit(1)
langgraph_load_config(e, f) ==
    IF ~Truthy(e.MCP_ENDPOINT) \/ ~Truthy(e.MCP_API_KEY)
    THEN IF f.exists
         THEN [outcome |-> "returned",
               endpoint |-> rstrip(Get(f.endpoint, <<>>)) \o Get(f.mcp_path, McpPath),
               api_key |-> Get(f.api_key, e.MCP_API_KEY)]
         ELSE [outcome |-> "exit1", endpoint |-> None, api_key |-> None]
    ELSE [outcome |-> "returned", endpoint |-> e.MCP_ENDPOINT, api_key |-> e.MCP_API_KEY]

CfgEnvs ==
    [MCP_BEARER_TOKEN : {None}, AZURE_TENANT_ID : {None}, AZURE_CLIENT_ID : {None},
     AZURE_CLIENT_SECRET : {None},
     MCP_ENDPOINT : {None, <<>>, Ep}, MCP_API_KEY : {None, <<>>, Tok}]

CfgFiles ==
    {NoFiles} \cup [exists : {TRUE}, endpoint : {None, FileEp, FileEp \o <<47>>},
                    mcp_path : {None, McpPath}, api_key : {None, Key},
                    dotenv_api_key : {None}]

InitCfg ==
    /\ script \in {"load_mcp_config", "langgraph"}
    /\ pc = "main"
    /\ env \in CfgEnvs
    /\ args = NoArgs
    /\ files \in CfgFiles
    /\ bearer_token = None
    /\ results = NoResults
    /\ client = NoClient
    /\ sent = <<>>
    /\ last = NoLast
    /\ exit = "running"
    /\ tokenCalls = 0
    /\ azureCalls = 0
    /\ verdicts = <<>>
    /\ success = "none"
    /\ config = NoConfig
    /\ locals = NoLocals

\* a MAF demo calls load_mcp_config
cfg_load_mcp_config ==
    /\ script = "load_mcp_config" /\ pc = "main"
    /\ LET r == load_mcp_config(env, files)
       IN /\ config' = [endpoint |-> r.endpoint, api_key |-> r.api_key]
          /\ pc' = "loaded"
    /\ UNCHANGED <<locals, script, env, args, files, bearer_token, results, client, sent, last, exit,
                   tokenCalls, azureCalls, verdicts, success>>

\* the LangGraph sample calls load_config
cfg_langgraph_load_config ==
    /\ script = "langgraph" /\ pc = "main"
    /\ LET r == langgraph_load_config(env, files)
       IN IF r.outcome = "exit1"
          THEN config' = config /\ exit' = "exit1" /\ pc' = "done"
          ELSE /\ config' = [endpoint |-> r.endpoint, api_key |-> r.api_key]
               /\ exit' = exit /\ pc' = "loaded"
    /\ UNCHANGED <<locals, script, env, args, files, bearer_token, results, client, sent, last,
                   tokenCalls, azureCalls, verdicts, success>>

(***************************************************************************)
(* sample-maf-agent: shared/env.py and shared/cli.py                       *)
(***************************************************************************)
\* ".env", ".azure", an azd environment name "d"
DotEnv == <<46, 101, 110, 118>>
DotAzure == <<46, 97, 122, 117, 114, 101>>
Dev == <<100>>

\* os.path.join of two relative components
join(a, b) == a \o <<47>> \o b

\* samples/ ("s") and samples/sample-maf-agent/ ("s/m"), env.py lines 29-33
samples_dir == <<115>>
sample_root == join(samples_dir, <<109>>)

\* env.py lines 46-57, the body of the try block: the azd-managed .env, None,
\* or an exception (open or json.load fails, config is no dict, the name is
\* no string)
azd_env_file(f) ==
    IF f.config_json = "missing" THEN [outcome |-> "returned", path |-> None]
    ELSE IF f.config_json \in {"unreadable", "invalid", "nonobject"}
    THEN [outcome |-> "raised", path |-> None]
    ELSE IF f.config_json = "nonstring" THEN [outcome |-> "raised", path |-> None]
    ELSE IF Truthy(f.defaultEnvironment)
    THEN IF f.defaultEnvironment \in f.azd_envs
         THEN [outcome |-> "returned",
               path |-> join(join(join(samples_dir, DotAzure), f.defaultEnvironment), DotEnv)]
         ELSE [outcome |-> "returned", path |-> None]
    ELSE [outcome |-> "returned", path |-> None]

\* the local .env preferred to the shared one
get_env_file_path_local_first(e, f) ==
    IF Truthy(e.RUNNING_IN_PRODUCTION) THEN None
    ELSE IF f.local_env THEN join(sample_root, DotEnv)
    ELSE IF f.samples_env THEN join(samples_dir, DotEnv)
    ELSE IF azd_env_file(f).outcome = "raised" THEN None
    ELSE azd_env_file(f).path

\* env.py get_env_file_path
get_env_file_path(e, f) ==
    IF Truthy(e.RUNNING_IN_PRODUCTION) THEN None
    ELSE IF f.samples_env THEN join(samples_dir, DotEnv)
    ELSE IF f.local_env THEN join(sample_root, DotEnv)
    ELSE IF azd_env_file(f).outcome = "raised" THEN None
    ELSE azd_env_file(f).path

\* RUNNING_IN_PRODUCTION unset, empty, or "1"
CliEnvs == [RUNNING_IN_PRODUCTION : {None, <<>>, <<49>>}]

\* which .env files exist; .azure/config.json: "missing", "unreadable",
\* "invalid" (no JSON), "nonobject", "nonstring" (defaultEnvironment is a
\* number), "object"; azd_envs: the environments whose .env exists
CliFiles ==
    [samples_env : BOOLEAN, local_env : BOOLEAN,
     config_json : {"missing", "unreadable", "invalid", "nonobject", "nonstring"},
     defaultEnvironment : {None}, azd_envs : {{}, {Dev}}]
    \cup [samples_env : BOOLEAN, local_env : BOOLEAN, config_json : {"object"},
          defaultEnvironment : {None, <<>>, Dev}, azd_envs : {{}, {Dev}}]

\* _get_demos: the keys of the demo table in insertion order
DemoKeys == <<"1", "2", "3", "4", "5", "6">>

\* every demo of the table kept in the list
demo_list_all(choice) ==
    IF choice = "A" THEN DemoKeys
    ELSE IF \E k \in DOMAIN DemoKeys : DemoKeys[k] = choice THEN <<choice>>
    ELSE <<>>

\* run_demo lines 73-76 and 81-82: the demos that run_demo(choice) awaits
demo_list(choice) ==
    IF choice = "A" THEN SelectSeq(DemoKeys, LAMBDA k : k # "2")
    ELSE IF \E k \in DOMAIN DemoKeys : DemoKeys[k] = choice THEN <<choice>>
    ELSE <<>>

\* str.upper of a command-line choice
upper(c) == IF c = "a" THEN "A" ELSE c

\* len(queries) of a demo; demo 1 (semantic search) runs no agent
NumQueries(d) == IF d = "1" THEN 0 ELSE 3

\* len(DEMO_QUESTIONS) of the LangGraph sample
NumQuestions == 3

\* the demo that run_demo is awaiting
CurrentDemo == locals.demo_list[locals.i + 1]

\* argparse choices of the positional argument
\* ("None": no argument, the interactive menu)
CliArgs == [demo : {"None", "1", "2", "3", "4", "5", "6", "a", "A"}]

\* the menu is shown at most this many times
MaxMenuRounds == 2

\* what the user does at the menu's prompt: a line ("x" and "7" are no
\* choices, "a" is upper-cased), Ctrl-C or end of input
MenuInputs == {"0", "1", "2", "3", "4", "5", "6", "a", "A", "x", "7",
               "KeyboardInterrupt", "EOFError"}

\* print_menu: the choice, "None" for an invalid one, "0" for Ctrl-C and
\* end of input
print_menu(input) ==
    IF input \in {"KeyboardInterrupt", "EOFError"} THEN "0"
    ELSE IF upper(input) \in {"0", "1", "2", "3", "4", "5", "6", "A"} THEN upper(input)
    ELSE "None"

\* the demos that create a chat client (demo 1 runs no agent) and those whose
\* finally clause closes it (vector_search/main.py has none)
creates_chat_client(d) == d # "1"
closes_chat_client(d) == d \in {"2", "4", "5", "6"}

\* a run varies the .env files (with demo 1) or the demo (with the shared
\* samples/.env)
InitCli ==
    /\ script = "cli"
    /\ pc = "main"
    /\ env \in CliEnvs
    /\ args \in CliArgs
    /\ files \in CliFiles
    /\ \/ args.demo = "1"
       \/ /\ env.RUNNING_IN_PRODUCTION = None
          /\ files.samples_env /\ ~files.local_env
          /\ files.config_json = "missing" /\ files.azd_envs = {}
    /\ bearer_token = None
    /\ results = NoResults
    /\ client = NoClient
    /\ sent = <<>>
    /\ last = NoLast
    /\ exit = "running"
    /\ tokenCalls = 0
    /\ azureCalls = 0
    /\ verdicts = <<>>
    /\ success = "none"
    /\ config = None
    /\ locals = NoLocals

\* main lines 109-122: config holds env_file; run_demo(args.demo.upper())
\* builds its list of demos; without an argument the menu loop begins
cli_main ==
    /\ script = "cli" /\ pc = "main"
    /\ config' = get_env_file_path(env, files)
    /\ IF args.demo # "None"
       THEN /\ locals' = [locals EXCEPT !.demo_list = demo_list(upper(args.demo))]
            /\ pc' = "run_demo"
       ELSE /\ locals' = locals
            /\ pc' = "menu"
    /\ UNCHANGED <<script, env, args, files, bearer_token, results, client, sent, last, exit,
                   tokenCalls, azureCalls, verdicts, success>>

\* main lines 128-140: one turn of the menu loop up to asyncio.run(run_demo)
cli_print_menu ==
    /\ script = "cli" /\ pc = "menu"
    /\ locals.rounds < MaxMenuRounds
    /\ \E input \in MenuInputs :
        LET choice == print_menu(input)
        IN /\ locals' = [NoLocals EXCEPT !.rounds = locals.rounds + 1,
                                         !.choice = choice,
                                         !.demo_list = IF choice \in {"None", "0"} THEN <<>>
                                                       ELSE demo_list(choice)]
           /\ pc' = IF choice = "None" THEN "menu"
                    ELSE IF choice = "0" THEN "done" ELSE "run_demo"
           /\ exit' = IF choice = "0" THEN "exit0" ELSE exit
    /\ UNCHANGED <<script, env, args, files, bearer_token, results, client, sent, last,
                   tokenCalls, azureCalls, verdicts, success, config>>

\* main line 142: input("Press Enter to continue...") stands in no try block
cli_press_enter ==
    /\ script = "cli" /\ pc = "press_enter"
    /\ \E input \in {"Enter", "KeyboardInterrupt", "EOFError"} :
        IF input = "Enter"
        THEN pc' = "menu" /\ exit' = exit
        ELSE pc' = "done" /\ exit' = "unhandled"
    /\ UNCHANGED <<script, env, args, files, bearer_token, results, client, sent, last,
                   tokenCalls, azureCalls, verdicts, success, config, locals>>

\* run_demo line 78 / 82: await demo_func()
cli_invoke_demo ==
    /\ script = "cli" /\ pc = "run_demo"
    /\ locals.i < Len(locals.demo_list)
    /\ locals' = [locals EXCEPT !.invoked = Append(@, CurrentDemo),
                                !.running = @ \cup {CurrentDemo},
                                !.query = 0, !.created = 0, !.closed = 0]
    /\ pc' = "demo"
    /\ UNCHANGED <<script, env, args, files, bearer_token, results, client, sent, last, exit,
                   tokenCalls, azureCalls, verdicts, success, config>>

\* run_demo returns: main returns, or goes on to line 142 in the menu loop
cli_run_demo_return ==
    /\ script = "cli" /\ pc = "run_demo"
    /\ locals.i = Len(locals.demo_list)
    /\ pc' = IF args.demo # "None" THEN "done" ELSE "press_enter"
    /\ exit' = IF args.demo # "None" THEN "exit0" ELSE exit
    /\ UNCHANGED <<script, env, args, files, bearer_token, results, client, sent, last,
                   tokenCalls, azureCalls, verdicts, success, config, locals>>

\* the demo ends: it returns to run_demo, or an exception leaves it; main
\* catches KeyboardInterrupt only
DemoEnds(how) ==
    /\ locals' = [locals EXCEPT !.running = @ \ {CurrentDemo},
                                !.in_flight = {},
                                !.i = IF how = "return" THEN @ + 1 ELSE @,
                                !.closed = IF locals.created > 0 /\ closes_chat_client(CurrentDemo)
                                           THEN @ + 1 ELSE @]
    /\ pc' = IF how = "return" THEN "run_demo"
             ELSE IF how = "KeyboardInterrupt" /\ args.demo = "None" THEN "press_enter"
             ELSE "done"
    /\ exit' = IF how = "Exception" THEN "unhandled"
               ELSE IF how = "KeyboardInterrupt" /\ args.demo # "None" THEN "exit0" ELSE exit

\* the next query issued while the answer to the last one is still awaited
cli_demo_query_no_await ==
    /\ script = "cli" /\ pc = "demo"
    /\ locals.query < NumQueries(CurrentDemo)
    /\ locals' = [locals EXCEPT !.query = @ + 1,
                                !.in_flight = @ \cup {<<CurrentDemo, locals.query + 1>>},
                                !.created = IF locals.query = 0 /\ creates_chat_client(CurrentDemo)
                                            THEN 1 ELSE @]
    /\ pc' = IF locals.query + 1 < NumQueries(CurrentDemo) THEN "demo" ELSE "await"
    /\ UNCHANGED <<script, env, args, files, bearer_token, results, client, sent, last, exit,
                   tokenCalls, azureCalls, verdicts, success, config>>

\* a demo's loop, e.g. mcp_tools/main.py lines 196-200: await agent.run(query)
cli_demo_query ==
    /\ script = "cli" /\ pc = "demo"
    /\ locals.query < NumQueries(CurrentDemo)
    /\ locals' = [locals EXCEPT !.query = @ + 1,
                                !.in_flight = @ \cup {<<CurrentDemo, locals.query + 1>>},
                                !.created = IF locals.query = 0 /\ creates_chat_client(CurrentDemo)
                                            THEN 1 ELSE @]
    /\ pc' = "await"
    /\ UNCHANGED <<script, env, args, files, bearer_token, results, client, sent, last, exit,
                   tokenCalls, azureCalls, verdicts, success, config>>

\* agent.run returns the response or raises: "handled" is an exception that
\* the demo's except clauses print (ToolException, ConnectionError),
\* "Exception" one that they raise again
cli_demo_response ==
    /\ script = "cli" /\ pc = "await"
    /\ \E o \in {"response", "handled", "Exception", "KeyboardInterrupt"} :
        IF o = "response"
        THEN /\ locals' = [locals EXCEPT !.in_flight = @ \ {<<CurrentDemo, locals.query>>}]
             /\ pc' = "demo"
             /\ exit' = exit
        ELSE DemoEnds(IF o = "handled" THEN "return" ELSE o)
    /\ UNCHANGED <<script, env, args, files, bearer_token, results, client, sent, last,
                   tokenCalls, azureCalls, verdicts, success, config>>

\* the demo returns after its last query, or before the first one (missing
\* configuration, a connection failure that it prints or raises again)
cli_demo_return ==
    /\ script = "cli" /\ pc = "demo"
    /\ \/ locals.query = NumQueries(CurrentDemo) /\ DemoEnds("return")
       \/ locals.query = 0 /\ \E how \in {"return", "Exception"} : DemoEnds(how)
    /\ UNCHANGED <<script, env, args, files, bearer_token, results, client, sent, last,
                   tokenCalls, azureCalls, verdicts, success, config>>

(***************************************************************************)
(* langgraph-mcp-agent/simple-agent.py: run_demo                           *)
(***************************************************************************)
\* run_agent after load_config: await agent.ainvoke(question)
langgraph_ainvoke ==
    /\ script = "langgraph" /\ pc = "loaded"
    /\ locals' = [locals EXCEPT !.query = @ + 1,
                                !.in_flight = @ \cup {<<"langgraph", locals.query + 1>>}]
    /\ pc' = "await"
    /\ UNCHANGED <<script, env, args, files, bearer_token, results, client, sent, last, exit,
                   tokenCalls, azureCalls, verdicts, success, config>>

\* ainvoke returns and run_demo goes on with the next question (run_agent
\* loads the configuration again), or it raises and the run ends
langgraph_result ==
    /\ script = "langgraph" /\ pc = "await"
    /\ locals' = [locals EXCEPT !.in_flight = @ \ {<<"langgraph", locals.query>>}]
    /\ \E o \in {"response", "Exception"} :
        IF o = "Exception" THEN pc' = "done" /\ exit' = "unhandled"
        ELSE IF locals.query = NumQuestions THEN pc' = "done" /\ exit' = "exit0"
        ELSE pc' = "main" /\ exit' = exit
    /\ UNCHANGED <<script, env, args, files, bearer_token, results, client, sent, last,
                   tokenCalls, azureCalls, verdicts, success, config>>

(***************************************************************************)
(* test-sso/validate_entra_m2m.py                                          *)
(***************************************************************************)
\* "<60, 80, 65, 83, 84, 69, 95, 83, 69, 67, 82, 69, 84, 95, 86, 65, 76, 85, 69, 95, 72, 69, 82, 69, 62_SECRET_VALUE_HERE>"
PasteSecret == <<60, 80, 65, 83, 84, 69, 95, 83, 69, 67, 82, 69, 84, 95, 86, 65, 76, 85, 69, 95, 72, 69, 82, 69, 62>>

\* ValidationResult.__init__
ValidationResult == [checks |-> <<>>, passed |-> 0, failed |-> 0]

\* a check that counts passes only
check_passes_only(r, name, passed) ==
    [checks |-> Append(r.checks, <<name, IF passed THEN "PASS" ELSE "FAIL">>),
     passed |-> IF passed THEN r.passed + 1 ELSE r.passed,
     failed |-> r.failed]

\* ValidationResult.check
check(r, name, passed) ==
    [checks |-> Append(r.checks, <<name, IF passed THEN "PASS" ELSE "FAIL">>),
     passed |-> IF passed THEN r.passed + 1 ELSE r.passed,
     failed |-> IF passed THEN r.failed ELSE r.failed + 1]

\* a run of result.check(name, True) calls, one per name
RECURSIVE check_all(_, _)
check_all(r, names) ==
    IF names = <<>> THEN r
    ELSE check_all(check(r, names[1], TRUE), SubSeq(names, 2, Len(names)))

\* success reported as soon as one check passed
print_summary_any_passed(r) == r.passed > 0

\* ValidationResult.print_summary: return self.failed == 0
print_summary(r) == r.failed = 0

\* what Azure answers to acquire_m2m_token: the MSAL constructor or the call
\* raises, an error answer (by AADSTS code), an answer without access_token,
\* or a token
AcquireOutcomes ==
    {"constructor_raises", "call_raises", "AADSTS650053", "AADSTS7000215", "AADSTS700016",
     "other_error", "no_access_token", "access_token"}

\* acquire_m2m_token: the checks it records and the token it returns
acquire_m2m_token(o, r) ==
    IF o = "constructor_raises"
    THEN [result |-> check(r, "Create MSAL ConfidentialClientApplication", FALSE),
          token |-> None]
    ELSE LET r1 == check(r, "Create MSAL ConfidentialClientApplication", TRUE)
         IN IF o = "call_raises"
            THEN [result |-> check(r1, "Call acquire_token_for_client", FALSE), token |-> None]
            ELSE IF o = "access_token"
            THEN [result |-> check(r1, "Acquire M2M token", TRUE), token |-> AzTok]
            ELSE [result |-> check(r1, "Acquire M2M token", FALSE), token |-> None]

\* the step of validate_token_cryptographically that fails and the exception
\* or finding that makes it fail; step "none": the token is valid
ValidateOutcomes ==
    [step : {"openid", "jwks"}, error : {"RequestException", "Exception"}]
    \cup [step : {"header", "from_jwk"}, error : {"Exception"}]
    \cup [step : {"kid"}, error : {"missing"}]
    \cup [step : {"key"}, error : {"no_match"}]
    \cup [step : {"decode"},
          error : {"ExpiredSignatureError", "InvalidAudienceError", "InvalidIssuerError",
                   "InvalidSignatureError", "DecodeError", "ImmatureSignatureError"}]
    \cup [step : {"none"}, error : {"none"}]

\* the checks recorded as passed before a step is tried
PassedBefore(step) ==
    LET c1 == <<"Fetch OpenID configuration">>
        c2 == c1 \o <<"Fetch JWKS public keys">>
        c3 == c2 \o <<"Token has key ID (kid)">>
        c4 == c3 \o <<"Find matching public key">>
        c5 == c4 \o <<"Build RSA public key">>
    IN CASE step = "openid" -> <<>>
         [] step = "jwks" -> c1
         [] step \in {"header", "kid"} -> c2
         [] step = "key" -> c3
         [] step = "from_jwk" -> c4
         [] OTHER -> c5

\* the check that a failing step records: by the except clause that catches it
FailedCheck(o) ==
    CASE o.error = "RequestException" -> "Fetch JWKS"
      [] o.error = "missing" -> "Token has key ID (kid)"
      [] o.error = "no_match" -> "Find matching public key"
      [] o.error = "ExpiredSignatureError" -> "Verify expiration (exp)"
      [] o.error = "InvalidAudienceError" -> "Verify audience (aud)"
      [] o.error = "InvalidIssuerError" -> "Verify issuer (iss)"
      [] o.error = "InvalidSignatureError" -> "Verify signature (RS256)"
      [] o.error = "DecodeError" -> "Decode token"
      [] OTHER -> "Token validation"

\* requests.get retried once when the OpenID configuration cannot be fetched
fetches_retry(o) ==
    [openid |-> IF o.step = "openid" THEN 2 ELSE 1,
     jwks |-> IF o.step = "openid" THEN 0 ELSE 1]

\* the requests.get calls of one validation: get_jwks_uri is the first
\* statement, get_public_keys follows only when get_jwks_uri returned
fetches(o) ==
    [openid |-> 1,
     jwks |-> IF o.step = "openid" THEN 0 ELSE 1]

\* validate_token_cryptographically: the checks it records and its payload
validate_token_cryptographically(o, r) ==
    LET r1 == check_all(r, PassedBefore(o.step))
    IN IF o.step = "none"
       THEN [result |-> check_all(r1, <<"Verify signature (RS256)", "Verify expiration (exp)",
                                        "Verify issuer (iss)", "Verify audience (aud=api://id)">>),
             payload |-> "payload"]
       ELSE [result |-> check(r1, FailedCheck(o), FALSE), payload |-> "None"]

\* the environment and APP_REGISTRATION.json ("missing", "invalid", "object")
ValidateEnvs ==
    [AZURE_TENANT_ID : {None, Id}, AZURE_CLIENT_ID : {None, Id},
     AZURE_CLIENT_SECRET : {None, Id, PasteSecret}]

ValidateFiles ==
    [kind : {"missing", "invalid"}, tenantId : {None}, clientId : {None}]
    \cup [kind : {"object"}, tenantId : {None, Id}, clientId : {None, Id}]

InitValidate ==
    /\ script = "validate"
    /\ pc = "main"
    /\ env \in ValidateEnvs
    /\ args = NoArgs
    /\ files \in ValidateFiles
    /\ bearer_token = None
    /\ results = ValidationResult
    /\ client = NoClient
    /\ sent = <<>>
    /\ last = NoLast
    /\ exit = "running"
    /\ tokenCalls = 0
    /\ azureCalls = 0
    /\ verdicts = <<>>
    /\ success = "none"
    /\ config = NoConfig
    /\ locals = [missing |-> {}, validated_payload |-> "unset",
                 openid_gets |-> 0, jwks_gets |-> 0]

\* main, lines 345-373: load_config and the configuration check
validate_main ==
    /\ script = "validate" /\ pc = "main"
    /\ IF files.kind = "invalid"
       THEN \* json.load raises in load_config
            /\ exit' = "unhandled" /\ pc' = "done" /\ locals' = locals
       ELSE LET tenant_id == IF Truthy(env.AZURE_TENANT_ID) THEN env.AZURE_TENANT_ID
                             ELSE files.tenantId
                client_id == IF Truthy(env.AZURE_CLIENT_ID) THEN env.AZURE_CLIENT_ID
                             ELSE files.clientId
                client_secret == env.AZURE_CLIENT_SECRET
                missing == (IF ~Truthy(tenant_id) THEN {"AZURE_TENANT_ID"} ELSE {})
                           \cup (IF ~Truthy(client_id) THEN {"AZURE_CLIENT_ID"} ELSE {})
                           \cup (IF ~Truthy(client_secret) \/ client_secret = PasteSecret
                                 THEN {"AZURE_CLIENT_SECRET"} ELSE {})
            IN /\ locals' = [locals EXCEPT !.missing = missing]
               /\ IF missing # {}
                  THEN exit' = "exit1" /\ pc' = "done"
                  ELSE exit' = exit /\ pc' = "acquire"
    /\ UNCHANGED <<script, env, args, files, bearer_token, results, client, sent, last,
                   tokenCalls, azureCalls, verdicts, success, config>>

\* main, lines 381-392: step 1, token acquisition
validate_acquire ==
    /\ script = "validate" /\ pc = "acquire"
    /\ \E o \in AcquireOutcomes :
        LET a == acquire_m2m_token(o, results)
        IN /\ results' = a.result
           /\ bearer_token' = a.token
           /\ azureCalls' = azureCalls + (IF o = "constructor_raises" THEN 0 ELSE 1)
           /\ IF ~Truthy(a.token)
              THEN exit' = "exit1" /\ pc' = "done"
              ELSE exit' = exit /\ pc' = "validate"
    /\ UNCHANGED <<script, env, args, files, client, sent, last, tokenCalls, verdicts,
                   success, config, locals>>

\* main, lines 394-407: the claims are printed, then step 2, validation
validate_validate ==
    /\ script = "validate" /\ pc = "validate"
    /\ \E o \in ValidateOutcomes :
        LET v == validate_token_cryptographically(o, results)
        IN /\ results' = v.result
           /\ locals' = [locals EXCEPT !.validated_payload = v.payload,
                                       !.openid_gets = @ + fetches(o).openid,
                                       !.jwks_gets = @ + fetches(o).jwks]
    /\ pc' = "summary"
    /\ UNCHANGED <<script, env, args, files, bearer_token, client, sent, last, exit,
                   tokenCalls, azureCalls, verdicts, success, config>>

\* main, lines 409-430: the summary decides the exit status
validate_summary ==
    /\ script = "validate" /\ pc = "summary"
    /\ success' = IF print_summary(results) THEN "True" ELSE "False"
    /\ exit' = IF print_summary(results) THEN "exit0" ELSE "exit1"
    /\ pc' = "done"
    /\ UNCHANGED <<script, env, args, files, bearer_token, results, client, sent, last,
                   tokenCalls, azureCalls, verdicts, config, locals>>

(***************************************************************************)
(* databrick_samples/neo4j_mcp_agent.py                                    *)
(***************************************************************************)
\* the tools a Neo4j MCP server can advertise
McpTools == {"get-schema", "read-cypher", "write-cypher"}

\* model.bind_tools(tools) and ToolNode(tools): every tool handed over
create_tool_calling_agent(tools) == [model_tools |-> tools, tool_node |-> tools]

\* the workflow runs at most this many nodes, a model answer requests at most
\* this many tool calls and is streamed in at most this many chunks
MaxSupersteps == 4
MaxToolCalls == 2
MaxChunks == 1

\* messages of the AgentState: the type and the number of tool calls
HumanMessage == [type |-> "human", tool_calls |-> 0]
AIMessage(n) == [type |-> "ai", tool_calls |-> n]
ToolMessage == [type |-> "tool", tool_calls |-> 0]

RECURSIVE ToolMessages(_)
ToolMessages(n) == IF n = 0 THEN <<>> ELSE Append(ToolMessages(n - 1), ToolMessage)

\* every AIMessage goes on to the tools node
should_continue_any_ai(messages) ==
    LET last_message == messages[Len(messages)]
    IN IF last_message.type = "ai" THEN "continue" ELSE "end"

\* should_continue: isinstance(last_message, AIMessage) and last_message.tool_calls
should_continue(messages) ==
    LET last_message == messages[Len(messages)]
    IN IF last_message.type = "ai" /\ last_message.tool_calls > 0 THEN "continue" ELSE "end"

\* add_conditional_edges("agent", should_continue, {"continue": "tools", "end": END})
conditional_edges(messages) == IF should_continue(messages) = "continue" THEN "tools" ELSE "END"

\* the events of the response stream: the type and the item (or item id),
\* numbered by the message it comes from and its position in that message
NoEvent == [type |-> "none", item |-> 0]
ItemDone(k) == [type |-> "response.output_item.done", item |-> k]
TextDelta(k) == [type |-> "response.output_text.delta", item |-> k]

\* the chunks in which a model answer is streamed: with or without content
Chunks == UNION {[1..n -> {"content", "empty"}] : n \in 0..MaxChunks}

\* _predict_stream_async, "messages" events: one text delta per AIMessageChunk
\* that has content, nothing for the other chunks
text_deltas(chunks, k) ==
    LET withContent == SelectSeq(chunks, LAMBDA c : c = "content")
    IN [i \in 1..Len(withContent) |-> TextDelta(10 * k)]

\* _predict_stream_async, "updates" event of the agent node: the items of the
\* AIMessage numbered k, one per tool call or one for a plain answer
agent_items(k, n) ==
    IF n = 0 THEN <<ItemDone(10 * k)>> ELSE [i \in 1..n |-> ItemDone(10 * k + i)]

\* _predict_stream_async, "updates" event of the tools node: one item per
\* ToolMessage, the messages numbered k + 1 .. k + n
tool_items(k, n) == [i \in 1..n |-> ItemDone(10 * (k + i))]

\* predict: the items of the events of type response.output_item.done or error
predict_outputs(events) ==
    LET kept == SelectSeq(events, LAMBDA e : e.type = "response.output_item.done"
                                              \/ e.type = "error")
    IN [i \in DOMAIN kept |-> kept[i].item]

InitDatabricks ==
    /\ script = "databricks"
    /\ pc = "main"
    /\ env = NoEnv
    /\ args = NoArgs
    /\ files = NoFiles
    /\ bearer_token = None
    /\ results = NoResults
    /\ client = NoClient
    /\ sent = <<>>
    /\ last = NoLast
    /\ exit = "running"
    /\ tokenCalls = 0
    /\ azureCalls = 0
    /\ verdicts = <<>>
    /\ success = "none"
    /\ config = NoConfig
    /\ locals \in [advertised : SUBSET McpTools, model_tools : {{}}, tool_node : {{}},
                   node : {"none"}, messages : {<<>>}, trace : {<<>>},
                   pending : {<<>>}, produced : {<<>>}, yielded : {<<>>},
                   item : {NoEvent}, ps : {"none"}, outputs : {<<>>}]

\* initialize_agent: the tools that get_tools returns go to the agent graph
\* as they are; an exception of get_tools ends the module's import
initialize_agent ==
    /\ script = "databricks" /\ pc = "main"
    /\ \E raised \in BOOLEAN :
        IF raised
        THEN /\ locals' = locals /\ exit' = "unhandled" /\ pc' = "done"
        ELSE LET mcp_tools == locals.advertised
                 agent == create_tool_calling_agent(mcp_tools)
             IN /\ locals' = [locals EXCEPT !.model_tools = agent.model_tools,
                                            !.tool_node = agent.tool_node]
                /\ exit' = exit
                /\ pc' = "agent"
    /\ UNCHANGED <<script, env, args, files, bearer_token, results, client, sent, last,
                   tokenCalls, azureCalls, verdicts, success, config>>

\* predict is called with one user message: predict_stream creates the
\* generator, the workflow is at its entry point
predict ==
    /\ script = "databricks" /\ pc = "agent"
    /\ locals' = [locals EXCEPT !.node = "agent", !.messages = <<HumanMessage>>,
                                !.ps = "anext"]
    /\ pc' = "stream"
    /\ UNCHANGED <<script, env, args, files, bearer_token, results, client, sent, last, exit,
                   tokenCalls, azureCalls, verdicts, success, config>>

\* the agent node, run when predict_stream asks for the next event and none
\* is left: call_model appends the model's answer, should_continue picks the
\* next node, the chunks and the update become stream events; an exception
\* of the model leaves predict_stream
astream_agent ==
    /\ script = "databricks" /\ pc = "stream"
    /\ locals.ps = "anext" /\ locals.pending = <<>> /\ locals.node = "agent"
    /\ Len(locals.trace) < MaxSupersteps
    /\ \E raised \in BOOLEAN, n \in 0..MaxToolCalls, chunks \in Chunks :
        IF raised
        THEN /\ n = 0 /\ chunks = <<>>
             /\ locals' = [locals EXCEPT !.ps = "raised"]
             /\ exit' = "unhandled" /\ pc' = "done"
        ELSE /\ n > 0 => locals.model_tools # {}
             /\ LET messages == Append(locals.messages, AIMessage(n))
                    k == Len(messages)
                IN locals' = [locals EXCEPT
                                !.messages = messages,
                                !.trace = Append(@, "agent"),
                                !.node = conditional_edges(messages),
                                !.pending = text_deltas(chunks, k) \o agent_items(k, n)]
             /\ exit' = exit /\ pc' = pc
    /\ UNCHANGED <<script, env, args, files, bearer_token, results, client, sent, last,
                   tokenCalls, azureCalls, verdicts, success, config>>

\* the tools node: one ToolMessage per requested tool call, then the edge
\* back to the agent node
astream_tools ==
    /\ script = "databricks" /\ pc = "stream"
    /\ locals.ps = "anext" /\ locals.pending = <<>> /\ locals.node = "tools"
    /\ Len(locals.trace) < MaxSupersteps
    /\ LET k == Len(locals.messages)
           n == locals.messages[k].tool_calls
       IN locals' = [locals EXCEPT !.messages = @ \o ToolMessages(n),
                                   !.trace = Append(@, "tools"),
                                   !.node = "agent",
                                   !.pending = tool_items(k, n)]
    /\ UNCHANGED <<script, pc, env, args, files, bearer_token, results, client, sent, last,
                   exit, tokenCalls, azureCalls, verdicts, success, config>>

\* predict_stream, item = loop.run_until_complete(ait.__anext__()): the
\* generator yields its next event
predict_stream_anext ==
    /\ script = "databricks" /\ pc = "stream"
    /\ locals.ps = "anext" /\ locals.pending # <<>>
    /\ locals' = [locals EXCEPT !.item = Head(locals.pending),
                                !.pending = Tail(@),
                                !.produced = Append(@, Head(locals.pending)),
                                !.ps = "yield"]
    /\ UNCHANGED <<script, pc, env, args, files, bearer_token, results, client, sent, last,
                   exit, tokenCalls, azureCalls, verdicts, success, config>>

\* the item is handed over twice
predict_stream_yield_twice ==
    /\ script = "databricks" /\ pc = "stream"
    /\ locals.ps = "yield"
    /\ locals' = [locals EXCEPT !.yielded = Append(Append(@, locals.item), locals.item),
                                !.ps = "anext"]
    /\ UNCHANGED <<script, pc, env, args, files, bearer_token, results, client, sent, last,
                   exit, tokenCalls, azureCalls, verdicts, success, config>>

\* predict_stream, else: yield item
predict_stream_yield ==
    /\ script = "databricks" /\ pc = "stream"
    /\ locals.ps = "yield"
    /\ locals' = [locals EXCEPT !.yielded = Append(@, locals.item), !.ps = "anext"]
    /\ UNCHANGED <<script, pc, env, args, files, bearer_token, results, client, sent, last,
                   exit, tokenCalls, azureCalls, verdicts, success, config>>

\* predict_stream, except StopAsyncIteration: break, once the workflow is at
\* END and every event was yielded; predict returns its outputs
predict_return ==
    /\ script = "databricks" /\ pc = "stream"
    /\ locals.ps = "anext" /\ locals.pending = <<>> /\ locals.node = "END"
    /\ locals' = [locals EXCEPT !.ps = "finished",
                                !.outputs = predict_outputs(locals.yielded)]
    /\ pc' = "returned"
    /\ UNCHANGED <<script, env, args, files, bearer_token, results, client, sent, last, exit,
                   tokenCalls, azureCalls, verdicts, success, config>>

(***************************************************************************)
(* The specification: one run of one script                                *)
(***************************************************************************)
Init == InitHttp \/ InitBearer \/ InitClient \/ InitCfg \/ InitCli
        \/ InitValidate \/ InitDatabricks

Next ==
    \/ http_main \/ http_test1 \/ http_test2 \/ http_test3 \/ http_test4
    \/ http_test5 \/ http_test6 \/ http_test7 \/ http_main_exit
    \/ bearer_main \/ bearer_test1 \/ bearer_test2 \/ bearer_test3
    \/ bearer_test4 \/ bearer_test5 \/ bearer_main_exit
    \/ client_main \/ client_test1 \/ client_test2 \/ client_test3
    \/ client_test4 \/ client_test5 \/ client_main_exit
    \/ cfg_load_mcp_config \/ cfg_langgraph_load_config
    \/ langgraph_ainvoke \/ langgraph_result
    \/ cli_main \/ cli_print_menu \/ cli_press_enter
    \/ cli_invoke_demo \/ cli_run_demo_return
    \/ cli_demo_query \/ cli_demo_response \/ cli_demo_return
    \/ validate_main \/ validate_acquire \/ validate_validate \/ validate_summary
    \/ initialize_agent \/ predict \/ astream_agent \/ astream_tools
    \/ predict_stream_anext \/ predict_stream_yield \/ predict_return

Spec == Init /\ [][Next]_vars

(***************************************************************************)
(* Properties                                                              *)
(***************************************************************************)
\* a run that ended with sys.exit
Exited == pc = "done" /\ exit \in {"exit0", "exit1"}

\* the last test got an HTTP answer with status st
Answered(st) == last.resp.kind \in {"response", "HTTPError"} /\ last.resp.status = st

\* the number of requests that test t has sent
RequestsOf(t) == Cardinality({i \in DOMAIN sent : sent[i].test = t})

C2_AllHelpersRaise ==
    ((Answered(401) \/ Answered(403)) /\ last.outcome # "none") => last.outcome = "raised"

\* C2 amended: MCPBearerClient._call raises on 401 and on 403; make_mcp_request
\* and MCPHttpClient._call return a value that carries the status (the error
\* code, the status_code).
C2_OnlyBearerRaises ==
    (Answered(401) \/ Answered(403)) =>
        /\ script = "bearer" => last.outcome = "raised"
        /\ (script = "client" /\ last.test >= 3) =>
              (last.outcome = "returned" /\ last.code = last.resp.status)
        /\ (script = "http" /\ last.test >= 2) =>
              (last.outcome = "returned" /\ last.code = last.resp.status)

\* the bearer client got 403 and its helper raised
C2_Witness == script = "bearer" /\ Answered(403) /\ last.outcome = "raised"

\* C3: no failure that occurs while the tests run escapes main as an
\* unhandled exception; the run ends in sys.exit.
C3_NoFailureEscapes == last.test >= 1 => exit # "unhandled"

\* C4: each test sends at most one request, so a run sends at most 5
\* (test_bearer_client), 5 (test_client) and 7 (test_http_mode) requests,
\* whatever fails.
C4_NoRetry ==
    /\ \A t \in 1..7 : RequestsOf(t) <= 1
    /\ script \in {"bearer", "client"} => Len(sent) <= 5
    /\ script = "http" => Len(sent) <= 7

\* a test_http_mode run that sent all 7 requests although several tests failed
C4_Witness == script = "http" /\ pc = "done" /\ Len(sent) = 7 /\ results.failed >= 3

\* C5: in test_bearer_client the token is acquired once, before the first
\* request, never refreshed, and every request carries that token, also
\* after a request was answered 401 or 403.
C5_TokenAcquiredOnce ==
    script = "bearer" =>
        /\ tokenCalls <= 1 /\ azureCalls <= 1
        /\ pc \in {"t1", "t2", "t3", "t4", "t5", "exit"} => tokenCalls = 1
        /\ sent # <<>> => (tokenCalls = 1 /\ Truthy(bearer_token))
        /\ \A i \in DOMAIN sent : sent[i].auth = BearerPrefix \o bearer_token

\* all five requests were sent although test 3 had failed
C5_Witness ==
    /\ script = "bearer" /\ Len(sent) = 5 /\ tokenCalls = 1
    /\ ~verdicts[3] /\ Answered(403)

\* C6: with --http-only, run_tests sends only the health check and the
\* unauthenticated request, never a request with a bearer token or basic
\* credentials.
C6_HttpOnlySendsNoCredentials ==
    (script = "http" /\ args.http_only) =>
        \A i \in DOMAIN sent : sent[i].test \in {1, 2} /\ sent[i].auth = None

\* the index of a character in the base64 alphabet
B64Index(c) == IF c \in 65..90 THEN c - 65
               ELSE IF c \in 97..122 THEN c - 71
               ELSE IF c \in 48..57 THEN c + 4
               ELSE IF c = 43 THEN 62 ELSE 63

\* base64 decoding: 4 characters -> 3 bytes, fewer before '=' padding
RECURSIVE B64Decode(_)
B64Decode(s) ==
    IF Len(s) < 4 THEN <<>>
    ELSE LET a == B64Index(s[1])
             b == B64Index(s[2])
             c == B64Index(s[3])
             d == B64Index(s[4])
         IN IF s[3] = 61 THEN <<a * 4 + (b \div 16)>>
            ELSE IF s[4] = 61 THEN <<a * 4 + (b \div 16), (b % 16) * 16 + (c \div 4)>>
            ELSE <<a * 4 + (b \div 16), (b % 16) * 16 + (c \div 4), (c % 4) * 64 + d>>
                 \o B64Decode(SubSeq(s, 5, Len(s)))

\* h is "Bearer <token>"
IsBearer(h, token) == token # None /\ h = BearerPrefix \o token

\* h is "Basic <base64(username:password)>"
IsBasic(h, username, password) ==
    /\ username # None /\ password # None
    /\ Len(h) >= Len(BasicPrefix)
    /\ SubSeq(h, 1, Len(BasicPrefix)) = BasicPrefix
    /\ B64Decode(SubSeq(h, Len(BasicPrefix) + 1, Len(h))) = username \o <<58>> \o password

\* C7: in test_http_mode.run_tests the health check and test 2 carry no
\* Authorization header; every request of tests 3-7 carries a header that is
\* either Bearer <token> or Basic <base64(user:pass)>; tests 5-7 use Bearer
\* whenever a bearer token is available, and Basic only when none is and both
\* username and password were given.
C7_AuthorizationForms ==
    script = "http" =>
        \A i \in DOMAIN sent :
            LET q == sent[i]
                bearer == IsBearer(q.auth, bearer_token)
                basic == IsBasic(q.auth, args.username, args.password)
            IN /\ q.test \in {1, 2} => q.auth = None
               /\ q.test \in 3..7 => (q.auth # None /\ (bearer \/ basic) /\ ~(bearer /\ basic))
               /\ q.test \in 5..7 => ((bearer_token # None => bearer)
                                      /\ (basic => bearer_token = None))

\* test 7 was sent with basic credentials of 5 bytes, no bearer token at hand
C7_Witness ==
    /\ script = "http" /\ last.test = 7 /\ bearer_token = None
    /\ Len(args.username) = 2 /\ Len(args.password) = 2
    /\ IsBasic(sent[Len(sent)].auth, args.username, args.password)

\* the verdict that test t of script sc gives to the answer resp
VerdictFor(sc, t, resp) ==
    IF sc = "http" THEN
        CASE t = 1 -> health_check(resp)
          [] t = 2 -> Test2Verdict(HttpCall(resp))
          [] t = 3 -> Test3Verdict(HttpCall(resp))
          [] t = 4 -> Test4Verdict(HttpCall(resp))
          [] t = 5 -> Test5Verdict(HttpCall(resp))
          [] t = 6 -> Test6Verdict(HttpCall(resp))
          [] OTHER -> Test7Verdict(HttpCall(resp))
    ELSE IF sc = "bearer" THEN BearerTestVerdict(BearerCall(resp))
    ELSE
        CASE t = 1 -> test_authentication_rejected(resp)
          [] t = 2 -> test_authentication_invalid(resp)
          [] t = 3 -> test_tools_list(make_mcp_request(resp))
          [] t = 4 -> test_get_schema(make_mcp_request(resp))
          [] OTHER -> test_read_cypher(make_mcp_request(resp))

\* the same answer with another status
WithStatus(resp, st) == [resp EXCEPT !.status = st]

\* C8 as stated: in every test of the three scripts the verdict for an
\* HTTP 403 answer equals the verdict for an HTTP 401 answer.
C8_403Like401 ==
    Answered(403) => last.verdict = VerdictFor(script, last.test, WithStatus(last.resp, 401))

\* the tests that do give 403 the verdict of 401
TreatsAlike(sc, t) == sc = "bearer" \/ (sc = "http" /\ t = 1) \/ (sc = "client" /\ t = 3)

\* C8 amended: test_bearer_client, the health check of test_http_mode and the
\* tools/list test of test_client give 403 the verdict of 401; every other
\* test of test_client and test_http_mode singles out 401 and gives 403 the
\* opposite verdict, that of any other error status (500).
C8_403Like401OnlyWhereRaised ==
    Answered(403) =>
        LET v401 == VerdictFor(script, last.test, WithStatus(last.resp, 401))
            v500 == VerdictFor(script, last.test, WithStatus(last.resp, 500))
        IN IF TreatsAlike(script, last.test)
           THEN last.verdict = v401
           ELSE last.verdict # v401 /\ last.verdict = v500

\* test 3 of test_http_mode fails on 403
C8_Witness == script = "http" /\ last.test = 3 /\ Answered(403) /\ last.verdict = "fail"

\* the three Azure variables are set (non-empty)
AzureConfigured ==
    Truthy(env.AZURE_TENANT_ID) /\ Truthy(env.AZURE_CLIENT_ID) /\ Truthy(env.AZURE_CLIENT_SECRET)

\* C9: get_token_from_env returns a non-empty MCP_BEARER_TOKEN as is, without
\* a request to Azure; otherwise it asks Azure only when the three Azure
\* variables are set; otherwise it raises ValueError and main exits with
\* status 1 without sending a JSON-RPC request.
C9_TokenSourcePriority ==
    (script = "bearer" /\ tokenCalls = 1) =>
        /\ Truthy(env.MCP_BEARER_TOKEN) =>
              (bearer_token = env.MCP_BEARER_TOKEN /\ azureCalls = 0 /\ (pc = "done" => sent # <<>>))
        /\ azureCalls > 0 => (~Truthy(env.MCP_BEARER_TOKEN) /\ AzureConfigured)
        /\ (~Truthy(env.MCP_BEARER_TOKEN) /\ AzureConfigured) =>
              \/ bearer_token = AzTok /\ azureCalls = 1
              \/ exit = "exit1" /\ pc = "done" /\ sent = <<>>
        /\ (~Truthy(env.MCP_BEARER_TOKEN) /\ ~AzureConfigured) =>
              (exit = "exit1" /\ pc = "done" /\ sent = <<>> /\ azureCalls = 0)

\* no direct token, Azure configured: the token came from Azure and is in use
C9_Witness ==
    /\ script = "bearer" /\ env.MCP_BEARER_TOKEN = <<>> /\ AzureConfigured
    /\ bearer_token = AzTok /\ azureCalls = 1 /\ Len(sent) >= 1

\* C10: whenever MCP_ENDPOINT is set the loaders return it as the endpoint,
\* and whenever MCP_API_KEY is set they return it as the api_key, whatever
\* MCP_ACCESS.json holds.
C10_EnvironmentFirst ==
    (script \in {"load_mcp_config", "langgraph"} /\ pc = "loaded") =>
        /\ Truthy(env.MCP_ENDPOINT) => config.endpoint = env.MCP_ENDPOINT
        /\ Truthy(env.MCP_API_KEY) => config.api_key = env.MCP_API_KEY

\* C11: get_env_file_path returns None whenever RUNNING_IN_PRODUCTION is set
\* (non-empty), even if .env files exist; otherwise samples/.env if it exists;
\* otherwise sample-maf-agent/.env if it exists; otherwise the azd-managed
\* .azure/<defaultEnvironment>/.env if config.json names an environment and
\* that file exists; otherwise None. It never raises: an exception can only
\* come from a demo that was invoked afterwards.
C11_EnvFilePriority ==
    (script = "cli" /\ pc # "main") =>
        LET production == Truthy(env.RUNNING_IN_PRODUCTION)
            named == /\ files.config_json = "object"
                     /\ Truthy(files.defaultEnvironment)
                     /\ files.defaultEnvironment \in files.azd_envs
        IN /\ production => config = None
           /\ (~production /\ files.samples_env) => config = <<115, 47>> \o DotEnv
           /\ (~production /\ ~files.samples_env /\ files.local_env) =>
                  config = <<115, 47, 109, 47>> \o DotEnv
           /\ (~production /\ ~files.samples_env /\ ~files.local_env /\ named) =>
                  config = <<115, 47>> \o DotAzure \o <<47>> \o files.defaultEnvironment
                           \o <<47>> \o DotEnv
           /\ (~production /\ ~files.samples_env /\ ~files.local_env /\ ~named) =>
                  config = None
           /\ exit = "unhandled" => locals.invoked # <<>>

\* no shared or local .env, config.json names "d": the azd-managed file is returned
C11_Witness ==
    /\ script = "cli" /\ pc = "run_demo"
    /\ ~files.samples_env /\ ~files.local_env /\ files.defaultEnvironment = Dev
    /\ config = <<115, 47, 46, 97, 122, 117, 114, 101, 47, 100, 47, 46, 101, 110, 118>>

\* the demos that choice A is documented to run
WorkingDemos == <<"1", "3", "4", "5", "6">>

\* C12 as stated: run_demo("A") invokes demos 1, 3, 4, 5 and 6, each exactly
\* once and in that order, and never invokes demo 2.
C12_AllDemosOnce ==
    (script = "cli" /\ upper(args.demo) = "A" /\ pc = "done") =>
        locals.invoked = WorkingDemos

\* C12 amended: run_demo("A") invokes the demos in the order 1, 3, 4, 5, 6,
\* each at most once and never demo 2; it invokes all five when it returns,
\* and a demo that raises or is interrupted ends it before the later demos
\* are invoked.
C12_DemosInOrder ==
    (script = "cli" /\ upper(args.demo) = "A") =>
        /\ Len(locals.invoked) <= Len(WorkingDemos)
        /\ locals.invoked = SubSeq(WorkingDemos, 1, Len(locals.invoked))
        /\ (pc = "done" /\ locals.i = Len(locals.demo_list)) => locals.invoked = WorkingDemos
        /\ (pc = "done" /\ locals.i < Len(locals.demo_list)) =>
               /\ Len(locals.invoked) = locals.i + 1
               /\ exit = "unhandled" \/ locals.query > 0

\* run_demo("A") returned after all five demos
C12_Witness ==
    /\ script = "cli" /\ args.demo = "a" /\ pc = "done" /\ exit = "exit0"
    /\ locals.i = 5 /\ locals.invoked = <<"1", "3", "4", "5", "6">>

\* C13: no parallel fan-out: at any moment at most one demo and at most one
\* agent query is in flight; run_demo("A") starts a demo only after the
\* previous one has returned, and each demo and the simple-agent run_demo
\* issue query i+1 only after the response to query i has been received.
C13_NoFanOut ==
    (script \in {"cli", "langgraph"}) =>
        /\ Cardinality(locals.running) <= 1
        /\ Cardinality(locals.in_flight) <= 1
        /\ locals.running # {} =>
               /\ Len(locals.invoked) = locals.i + 1
               /\ locals.running = {locals.invoked[Len(locals.invoked)]}
        /\ locals.running = {} => Len(locals.invoked) \in {locals.i, locals.i + 1}
        /\ \A q \in locals.in_flight : q[2] = locals.query /\ pc = "await"

\* run_demo("A") awaits the second query of demo 5 after four demos returned
C13_Witness ==
    /\ script = "cli" /\ pc = "await" /\ locals.i = 3
    /\ locals.running = {"5"} /\ locals.in_flight = {<<"5", 2>>}

\* C14: validate_entra_m2m.main reports success and ends with exit status 0
\* only if a token was acquired, validate_token_cryptographically returned a
\* payload (signature, expiration, issuer and audience were verified) and no
\* check was recorded as failed; every other run that passes the
\* configuration check exits with status 1.
C14_SuccessOnlyIfValidated ==
    (script = "validate" /\ pc = "done" /\ exit # "unhandled" /\ locals.missing = {}) =>
        LET verified(name) == \E k \in DOMAIN results.checks : results.checks[k] = <<name, "PASS">>
            validated == /\ Truthy(bearer_token)
                         /\ locals.validated_payload = "payload"
                         /\ verified("Verify signature (RS256)")
                         /\ verified("Verify expiration (exp)")
                         /\ verified("Verify issuer (iss)")
                         /\ verified("Verify audience (aud=api://id)")
                         /\ results.failed = 0
                         /\ \A k \in DOMAIN results.checks : results.checks[k][2] = "PASS"
        IN /\ (exit = "exit0" /\ success = "True") <=> validated
           /\ ~validated => exit = "exit1"
           /\ success = "True" => exit = "exit0"

\* a token was acquired and validated: eleven checks passed, the run ends with
\* status 0
C14_Witness ==
    /\ script = "validate" /\ pc = "done" /\ exit = "exit0" /\ success = "True"
    /\ Truthy(bearer_token) /\ locals.validated_payload = "payload"
    /\ results.passed = 11 /\ results.failed = 0

\* C15: whatever set of tools the MCP server advertises, the tools bound to
\* the model and to the ToolNode by initialize_agent are a subset of
\* {get-schema, read-cypher}, so the agent can never issue a write-cypher call.
C15_ReadOnlyTools ==
    (script = "databricks" /\ pc = "agent") =>
        /\ locals.model_tools \subseteq {"get-schema", "read-cypher"}
        /\ locals.tool_node \subseteq {"get-schema", "read-cypher"}

\* what the call helper of the last test handed back to its caller
HandedBack ==
    IF script = "http" THEN HttpCall(last.resp)
    ELSE IF script = "bearer" THEN BearerCall(last.resp)
    ELSE make_mcp_request(last.resp)

\* the last test sent its request through _call or make_mcp_request
UsedHelper ==
    \/ script = "http" /\ last.test >= 2 /\ last.verdict # "skip"
    \/ script = "bearer" /\ last.test >= 1
    \/ script = "client" /\ last.test >= 3

\* C16: for every JSON-RPC request/response pair handled by MCPBearerClient._call,
\* make_mcp_request and MCPHttpClient._call, the response that the helper hands
\* back to its caller carries the same id as the request that was sent.
C16_IdEchoed ==
    (/\ UsedHelper
     /\ last.resp.kind = "response" /\ last.resp.json \in {"error", "result"}
     /\ HandedBack.outcome = "returned") =>
        HandedBack.id = "echoed"

\* C17: test_http_mode cannot continue without HTTP: if the health check fails
\* (health_check returns False), run_tests returns immediately with
\* passed == 0, failed == 1, skipped == 0, no further request is sent, and
\* main exits with status 1.
C17_NoHttpNoTests ==
    [][/\ (script = "http" /\ pc = "t1" /\ last'.verdict = "fail") =>
              /\ pc' = "exit"
              /\ results' = [passed |-> 0, failed |-> 1, skipped |-> 0]
              /\ Len(sent') = 1
       /\ (script = "http" /\ pc = "exit") =>
              /\ sent' = sent /\ results' = results /\ pc' = "done"
              /\ (results.passed = 0 /\ results.failed = 1) => exit' = "exit1"
      ]_vars

\* the health check got a 500 answer and main has exited with status 1
C17_Witness ==
    /\ script = "http" /\ pc = "done" /\ exit = "exit1"
    /\ last.test = 1 /\ last.verdict = "fail" /\ last.resp.status = 500
    /\ results = [passed |-> 0, failed |-> 1, skipped |-> 0] /\ Len(sent) = 1

\* the steps of run_tests
HttpTests == {"t1", "t2", "t3", "t4", "t5", "t6", "t7"}

\* C18: in test_http_mode a 401 answer counts as a pass: a test whose request
\* is answered with HTTP 401 is never recorded as failed, with or without
\* credentials, and neither is a skipped test, so that a run in which every
\* request is answered with 401 has failed == 0 and main exits with status 0,
\* for every combination of bearer token, username/password and --http-only;
\* whereas any status other than 401 as the answer to the unauthenticated
\* request of test 2 is recorded as a failure, and main then exits with
\* status 1.
C18_401Passes ==
    [][script = "http" =>
        /\ (pc \in HttpTests /\ last'.resp.kind = "response" /\ last'.resp.status = 401) =>
               /\ last'.verdict = "pass"
               /\ results'.failed = results.failed
               /\ exit' = exit
        /\ (pc \in HttpTests /\ last'.verdict = "skip") => results'.failed = results.failed
        /\ (pc = "t2" /\ last'.resp.kind = "response" /\ last'.resp.status # 401) =>
               /\ last'.verdict = "fail"
               /\ results'.failed = results.failed + 1
        /\ results'.failed >= results.failed
        /\ pc \in HttpTests => pc' \in HttpTests \cup {"exit"} \/ exit' = "unhandled"
        /\ pc = "exit" => /\ pc' = "done"
                          /\ results.failed = 0 => exit' = "exit0"
                          /\ results.failed > 0 => exit' = "exit1"
      ]_vars

\* test 7, sent with credentials, was answered with 401 and no test failed:
\* main has exited with status 0
C18_Witness ==
    /\ script = "http" /\ pc = "done" /\ exit = "exit0"
    /\ last.test = 7 /\ last.resp.status = 401 /\ last.verdict = "pass"
    /\ has_bearer /\ has_basic /\ ~args.http_only
    /\ results = [passed |-> 7, failed |-> 0, skipped |-> 0]

\* the calls of test_bearer_client.run_tests in their order
BearerCalls ==
    <<"initialize", "tools/list", "tools/call get-schema", "tools/call read-cypher",
      "tools/call read-cypher">>

\* the calls are issued in the fixed order, one per test, and a failed
\* critical test is the last test of the run
BearerOrder ==
    /\ Len(sent) <= 5 /\ Len(verdicts) = Len(sent)
    /\ \A i \in DOMAIN sent : sent[i].test = i /\ sent[i].method = BearerCalls[i]
    /\ \A i \in DOMAIN verdicts :
           (i \in {1, 2, 4} /\ ~verdicts[i]) => (Len(sent) = i /\ success = "False")
    /\ success = "True" <=>
           (Len(verdicts) = 5 /\ verdicts[1] /\ verdicts[2] /\ verdicts[4])
    /\ success = "False" => (Len(verdicts) \in {1, 2, 4} /\ ~verdicts[Len(verdicts)])
    /\ (pc = "done" /\ sent # <<>>) => (exit = "exit0" <=> success = "True")
    /\ (pc = "done" /\ sent # <<>>) => success \in {"True", "False"}

\* C19 as stated: the calls are issued in the order initialize, tools/list,
\* get-schema, read-cypher, read-cypher; a failed critical test (1, 2, 4)
\* returns False at once; a failure of test 3 or 5 does not fail the suite;
\* run_tests returns True, and main exits 0, if and only if the calls of
\* tests 1, 2 and 4 raised no exception.
C19_TrueIffNoCallRaised ==
    (script = "bearer") =>
        /\ BearerOrder
        /\ (last.test \in {1, 2, 4} /\ last.outcome = "raised") => success = "False"
        /\ success = "False" => (last.test \in {1, 2, 4} /\ last.outcome = "raised")

\* C19 amended: as stated, except that run_tests returns True, and main exits
\* 0, if and only if the try blocks of tests 1, 2 and 4 raised no exception:
\* a critical test also fails when its call returned a JSON body that is no
\* object, on which result.get raises AttributeError.
C19_CriticalTestsDecide ==
    (script = "bearer") =>
        /\ BearerOrder
        /\ last.test >= 1 =>
               (~verdicts[last.test] <=>
                    \/ last.outcome = "raised"
                    \/ last.outcome = "returned" /\ last.resp.json = "nonobject")
        /\ success = "False" =>
               /\ last.test \in {1, 2, 4}
               /\ \/ last.outcome = "raised"
                  \/ last.outcome = "returned" /\ last.resp.json = "nonobject"

\* tests 3 and 5 failed, the critical tests passed: main has exited with 0
C19_Witness ==
    /\ script = "bearer" /\ pc = "done" /\ exit = "exit0" /\ success = "True"
    /\ verdicts = <<TRUE, TRUE, FALSE, TRUE, FALSE>> /\ Len(sent) = 5

\* C20: in test_client, test_get_schema and test_read_cypher return False if
\* and only if the response contains an error whose code is 401; for every
\* other outcome of make_mcp_request (another HTTP error code, connection
\* error -1, invalid JSON -2, a JSON-RPC error, empty content, an unexpected
\* format) they return True.
C20_OnlyAuthErrorFails ==
    (script = "client" /\ last.test \in {4, 5} /\ last.outcome = "returned") =>
        LET r == make_mcp_request(last.resp)
            auth_error == r.has_error /\ r.code = 401
        IN /\ last.verdict = "fail" <=> auth_error
           /\ ~auth_error => last.verdict = "pass"

\* the checks of a valid token, in the order of the routine's statements
ChecksInOrder ==
    <<"Fetch OpenID configuration", "Fetch JWKS public keys", "Token has key ID (kid)",
      "Find matching public key", "Build RSA public key", "Verify signature (RS256)",
      "Verify expiration (exp)", "Verify issuer (iss)", "Verify audience (aud=api://id)">>

\* the checks recorded by validate_token_cryptographically: those after the
\* two of acquire_m2m_token
ValidationChecks == SubSeq(results.checks, 3, Len(results.checks))

\* C21: validate_token_cryptographically is one linear routine: its passed
\* checks are a prefix of the fixed order (OpenID configuration, JWKS, key
\* id, matching key, RSA key, token verified), the OpenID configuration and
\* the JWKS are each fetched at most once, and a failed check is the last
\* check recorded and makes the routine return None.
C21_LinearValidation ==
    (script = "validate" /\ locals.validated_payload # "unset") =>
        LET cs == ValidationChecks
            n == Len(cs)
        IN /\ locals.openid_gets <= 1 /\ locals.jwks_gets <= 1
           /\ n >= 1 /\ n <= Len(ChecksInOrder)
           /\ \A k \in 1..n : cs[k][2] = "FAIL" => k = n
           /\ \A k \in 1..n : cs[k][2] = "PASS" => cs[k][1] = ChecksInOrder[k]
           /\ cs[n][2] = "FAIL" <=> locals.validated_payload = "None"
           /\ cs[n][2] = "PASS" => n = Len(ChecksInOrder)

\* a validation that fetched both documents, passed four checks and failed
\* on the fifth
C21_Witness ==
    /\ script = "validate" /\ locals.validated_payload = "None"
    /\ locals.openid_gets = 1 /\ locals.jwks_gets = 1
    /\ Len(ValidationChecks) = 5
    /\ ValidationChecks[5] = <<"Token validation", "FAIL">>
\* the number of checks recorded with the given status
Recorded(status) == Cardinality({k \in DOMAIN results.checks : results.checks[k][2] = status})

\* C27: a ValidationResult always has passed + failed == len(checks), each
\* counter being the number of checks of its status; acquire_m2m_token and
\* validate_token_cryptographically return None exactly when the call
\* recorded one failed check, and a call that returns a token or a payload
\* recorded none (validation runs only after an acquisition without failed
\* check, so the counter of the result is then that of the call).
C27_CountsAndNone ==
    script = "validate" =>
        /\ results.passed + results.failed = Len(results.checks)
        /\ results.passed = Recorded("PASS") /\ results.failed = Recorded("FAIL")
        /\ (results.checks # <<>> /\ locals.validated_payload = "unset") =>
              /\ bearer_token = None <=> results.failed = 1
              /\ bearer_token # None => results.failed = 0
        /\ locals.validated_payload # "unset" =>
              /\ locals.validated_payload = "None" <=> results.failed = 1
              /\ locals.validated_payload = "payload" => results.failed = 0

\* acquire_m2m_token built the MSAL application, the call raised, and None
\* came back with one failed check after one passed
C27_Witness ==
    /\ script = "validate" /\ pc = "done" /\ bearer_token = None
    /\ results.checks = <<<<"Create MSAL ConfidentialClientApplication", "PASS">>,
                          <<"Call acquire_token_for_client", "FAIL">>>>
    /\ results.passed = 1 /\ results.failed = 1
\* C26: in test_http_mode.run_tests every executed test records exactly one
\* of pass, fail or skip, on every branch: passed + failed + skipped is the
\* number of tests executed so far (last.test is the test executed last),
\* and a run that went past the health check ends with a sum of 7.
C26_OneRecordPerTest ==
    script = "http" =>
        /\ results.passed + results.failed + results.skipped = last.test
        /\ (pc \in {"exit", "done"} /\ last.test >= 2) =>
              results.passed + results.failed + results.skipped = 7
\* C28: within one client instance (MCPBearerClient, MCPHttpClient) every
\* request carries an id that no earlier request of the instance carried:
\* the k-th request sent has the id k, the counter having advanced by one
\* per request, whether the request failed or not.
C28_FreshRequestIds ==
    script \in {"http", "bearer"} =>
        /\ \A k \in DOMAIN sent : sent[k].id = k
        /\ \A j, k \in DOMAIN sent : j # k => sent[j].id # sent[k].id
        /\ client.request_id = Len(sent)
\* the node that ran last
LastNode == locals.trace[Len(locals.trace)]

\* C23: the workflow starts at the agent node; after an agent step the next
\* node is tools if and only if the last message is an AIMessage with a
\* non-empty tool_calls list, and END otherwise; after a tools step the next
\* node is agent. So END is reached only directly after an agent step that
\* requested no tool call, and every tools step directly follows an agent
\* step.
C23_WorkflowEdges ==
    (script = "databricks" /\ locals.node # "none") =>
        LET trace == locals.trace
            last_message == locals.messages[Len(locals.messages)]
            requested == last_message.type = "ai" /\ last_message.tool_calls > 0
        IN /\ trace = <<>> => locals.node = "agent"
           /\ trace # <<>> => trace[1] = "agent"
           /\ (trace # <<>> /\ LastNode = "agent") =>
                 /\ locals.node = "tools" <=> requested
                 /\ locals.node # "tools" => locals.node = "END"
           /\ (trace # <<>> /\ LastNode = "tools") => locals.node = "agent"
           /\ locals.node = "END" => (trace # <<>> /\ LastNode = "agent" /\ ~requested)
           /\ \A k \in DOMAIN trace :
                 trace[k] = "tools" => (k > 1 /\ trace[k - 1] = "agent")

\* the workflow went agent, tools, agent and ended
C23_Witness ==
    /\ script = "databricks" /\ locals.node = "END"
    /\ locals.trace = <<"agent", "tools", "agent">>
    /\ locals.messages[2].tool_calls = 2

\* C24: predict_stream yields exactly the events of _predict_stream_async,
\* in the same order, none dropped or duplicated (it is at most the one
\* event behind that it is about to yield), and finishes when the generator
\* is exhausted; predict returns, in stream order, the items of the events
\* of type response.output_item.done or error.
C24_StreamRefinement ==
    (script = "databricks" /\ locals.ps # "none") =>
        /\ locals.ps = "yield" => locals.produced = Append(locals.yielded, locals.item)
        /\ locals.ps # "yield" => locals.yielded = locals.produced
        /\ locals.ps = "finished" =>
              /\ locals.pending = <<>> /\ locals.node = "END"
              /\ LET done == {i \in DOMAIN locals.produced :
                                locals.produced[i].type \in {"response.output_item.done", "error"}}
                 IN /\ Len(locals.outputs) = Cardinality(done)
                    /\ \A i \in done :
                          locals.outputs[Cardinality({j \in done : j <= i})]
                              = locals.produced[i].item

\* a finished stream of a text delta, two function calls, two tool outputs,
\* a text delta and the final answer: predict returns the five items
C24_Witness ==
    /\ script = "databricks" /\ locals.ps = "finished"
    /\ locals.yielded = <<TextDelta(20), ItemDone(21), ItemDone(22), ItemDone(30),
                          ItemDone(40), TextDelta(50), ItemDone(50)>>
    /\ locals.outputs = <<21, 22, 30, 40, 50>>
\* C22: in every MAF demo a chat client created by create_agent_client is
\* closed exactly once before the demo function returns or propagates an
\* exception: no demo is left with a client that was created and not closed,
\* and none is closed twice or without having been created.
C22_ChatClientClosed ==
    script = "cli" =>
        /\ locals.closed <= locals.created
        /\ locals.running = {} => locals.closed = locals.created

\* C25: in interactive mode the process ends only through the menu's exit:
\* it terminates only after choice 0 (Ctrl-C and end of input at a prompt
\* counting as choice 0), always with exit status 0; an invalid choice runs
\* no demo and shows the menu again; after a demo finished, was interrupted
\* or failed, control is back in the menu loop.
C25_ExitOnlyThroughMenu ==
    (script = "cli" /\ args.demo = "None") =>
        /\ pc = "done" => (exit = "exit0" /\ locals.choice = "0")
        /\ exit \in {"running", "exit0"}
        /\ locals.choice = "None" => (pc = "menu" /\ locals.invoked = <<>>)
====
